---- MODULE Spec2Model ----
(***************************************************************************)
(* Model of the O8 declaration core: identifier helpers, schema           *)
(* validation, the DeclarationBuilder, the IPFS client and the            *)
(* verification pipeline.                                                  *)
(*                                                                         *)
(* A JavaScript string is a sequence of one-character strings, so that    *)
(* prefixes, slices, regular expressions and trim() are computed and not  *)
(* assumed.  An object is a record; an optional property that is absent   *)
(* is a field that is not in the record's DOMAIN.                          *)
(***************************************************************************)
EXTENDS Integers, Sequences, FiniteSets, TLC

\* ------------------------------------------------------------------------
\* Characters and strings
\* ------------------------------------------------------------------------
Digits == {"0", "1", "2", "3", "4", "5", "6", "7", "8", "9"}

LowerSeq ==
  <<"a", "b", "c", "d", "e", "f", "g", "h", "i", "j", "k", "l", "m",
    "n", "o", "p", "q", "r", "s", "t", "u", "v", "w", "x", "y", "z">>

UpperSeq ==
  <<"A", "B", "C", "D", "E", "F", "G", "H", "I", "J", "K", "L", "M",
    "N", "O", "P", "Q", "R", "S", "T", "U", "V", "W", "X", "Y", "Z">>

Range(s) == {s[i] : i \in DOMAIN s}

Lower == Range(LowerSeq)

Upper == Range(UpperSeq)

Alnum == Digits \cup Lower \cup Upper

HexChars == Digits \cup {"a", "b", "c", "d", "e", "f"} \cup {"A", "B", "C", "D", "E", "F"}

\* [1-9A-HJ-NP-Za-km-z]
Base58Chars == (Digits \ {"0"}) \cup (Upper \ {"I", "O"}) \cup (Lower \ {"l"})

\* [a-z2-7]
Base32Chars == Lower \cup {"2", "3", "4", "5", "6", "7"}

Whitespace == {" ", "\t", "\n"}

\* n copies of the character c
Rep(n, c) == [i \in 1..n |-> c]

\* String.prototype.startsWith
StartsWith(s, p) == Len(s) >= Len(p) /\ SubSeq(s, 1, Len(p)) = p

\* String.prototype.slice(n)
Slice(s, n) == SubSeq(s, n + 1, Len(s))

\* String.prototype.trim
Trim(s) ==
  LET keep == {i \in DOMAIN s : s[i] \notin Whitespace}
  IN IF keep = {} THEN <<>>
     ELSE LET lo == CHOOSE i \in keep : \A j \in keep : i <= j
              hi == CHOOSE i \in keep : \A j \in keep : i >= j
          IN SubSeq(s, lo, hi)

\* String.prototype.toLowerCase
ToLowerChar(c) ==
  IF c \in Upper THEN LowerSeq[CHOOSE i \in DOMAIN UpperSeq : UpperSeq[i] = c] ELSE c

ToLower(s) == [i \in DOMAIN s |-> ToLowerChar(s[i])]

\* every character of s[from..to] is in the class
AllIn(s, from, to, class) == \A i \in from..to : s[i] \in class

\* ------------------------------------------------------------------------
\* validate.ts: regular expressions
\* ------------------------------------------------------------------------
CidV0Body == 44

CidV1Body == 57

WalletBody == 40

Sha256Len == 64

\* IPFS_CID_REGEX = /^(Qm[1-9A-HJ-NP-Za-km-z]{44}|ba[a-z2-7]{57})$/
validateCID(cid) ==
  \/ /\ Len(cid) = 2 + CidV0Body
     /\ SubSeq(cid, 1, 2) = <<"Q", "m">>
     /\ AllIn(cid, 3, Len(cid), Base58Chars)
  \/ /\ Len(cid) = 2 + CidV1Body
     /\ SubSeq(cid, 1, 2) = <<"b", "a">>
     /\ AllIn(cid, 3, Len(cid), Base32Chars)

\* ETHEREUM_ADDRESS_REGEX = /^0x[a-fA-F0-9]{40}$/
validateWalletAddress(address) ==
  /\ Len(address) = 2 + WalletBody
  /\ SubSeq(address, 1, 2) = <<"0", "x">>
  /\ AllIn(address, 3, Len(address), HexChars)

\* /^[a-fA-F0-9]{64}$/
validateSha256(h) == Len(h) = Sha256Len /\ AllIn(h, 1, Len(h), HexChars)

\* ISO8601_REGEX = /^\d{4}-\d{2}-\d{2}T\d{2}:\d{2}:\d{2}(\.\d{3})?Z?$/
IsoHead(s) ==
  /\ Len(s) >= 19
  /\ AllIn(s, 1, 4, Digits) /\ s[5] = "-"
  /\ AllIn(s, 6, 7, Digits) /\ s[8] = "-"
  /\ AllIn(s, 9, 10, Digits) /\ s[11] = "T"
  /\ AllIn(s, 12, 13, Digits) /\ s[14] = ":"
  /\ AllIn(s, 15, 16, Digits) /\ s[17] = ":"
  /\ AllIn(s, 18, 19, Digits)

validateISO8601(s) ==
  /\ IsoHead(s)
  /\ LET rest == Slice(s, 19)
         frac(r) == Len(r) >= 4 /\ r[1] = "." /\ AllIn(r, 2, 4, Digits)
         tail == IF frac(rest) THEN Slice(rest, 4) ELSE rest
     IN tail = <<>> \/ tail = <<"Z">>

\* ------------------------------------------------------------------------
\* id.ts: declaration identifiers
\* ------------------------------------------------------------------------
O8_PREFIX == <<"o", "8", "-">>

O8_PENDING_PREFIX == <<"o", "8", "-", "p", "e", "n", "d", "i", "n", "g", "-">>

Ok(v) == [ok |-> TRUE, value |-> v]

Throw(e) == [ok |-> FALSE, error |-> e]

\* a pending test that looks at the short prefix only
isPendingIdLoose(id) == StartsWith(id, O8_PREFIX)

isPendingId(id) == StartsWith(id, O8_PENDING_PREFIX)

isPublishedId(id) ==
  IF ~StartsWith(id, O8_PREFIX) THEN FALSE
  ELSE IF StartsWith(id, O8_PENDING_PREFIX) THEN FALSE
  ELSE validateCID(Slice(id, Len(O8_PREFIX)))

\* a generator that prefixes whatever it is given
generateDeclarationIdUnchecked(cid) == Ok(O8_PREFIX \o cid)

generateDeclarationId(cid) ==
  IF ~validateCID(cid) THEN Throw("DeclarationIdError")
  ELSE Ok(O8_PREFIX \o cid)

parseDeclarationId(id) ==
  IF id = <<>> \/ ~StartsWith(id, O8_PREFIX) THEN Throw("DeclarationIdError")
  ELSE IF StartsWith(id, O8_PENDING_PREFIX)
  THEN Ok([prefix |-> O8_PENDING_PREFIX,
           cid |-> Slice(id, Len(O8_PENDING_PREFIX)),
           isPending |-> TRUE])
  ELSE LET cid == Slice(id, Len(O8_PREFIX))
       IN IF ~validateCID(cid) THEN Throw("DeclarationIdError")
          ELSE Ok([prefix |-> O8_PREFIX, cid |-> cid, isPending |-> FALSE])

\* gateway.replace(/\/$/, "") then `${baseUrl}/ipfs/${cid}`
getGatewayUrl(cid, gateway) ==
  LET baseUrl == IF gateway # <<>> /\ gateway[Len(gateway)] = "/"
                 THEN SubSeq(gateway, 1, Len(gateway) - 1)
                 ELSE gateway
  IN baseUrl \o <<"/", "i", "p", "f", "s", "/">> \o cid

\* input.match(/\/ipfs\/([A-Za-z0-9]+)/): the leftmost "/ipfs/" that is
\* followed by an alphanumeric character, and the longest alphanumeric run
\* after it; <<>> when there is no match
IpfsMatch(input) ==
  LET marker == <<"/", "i", "p", "f", "s", "/">>
      starts == {i \in 1..Len(input) :
                   /\ i + Len(marker) <= Len(input)
                   /\ SubSeq(input, i, i + Len(marker) - 1) = marker
                   /\ input[i + Len(marker)] \in Alnum}
  IN IF starts = {} THEN <<>>
     ELSE LET st == (CHOOSE i \in starts : \A j \in starts : i <= j) + Len(marker)
              ends == {e \in st..Len(input) : AllIn(input, st, e, Alnum)}
              en == CHOOSE e \in ends : \A f \in ends : e >= f
          IN SubSeq(input, st, en)

\* an extractor without the gateway URL form
extractCIDNoUrl(input) ==
  IF StartsWith(input, O8_PREFIX) /\ ~StartsWith(input, O8_PENDING_PREFIX)
  THEN Ok(Slice(input, Len(O8_PREFIX)))
  ELSE IF validateCID(input) THEN Ok(input)
  ELSE Throw("DeclarationIdError")

extractCID(input) ==
  IF StartsWith(input, O8_PREFIX) /\ ~StartsWith(input, O8_PENDING_PREFIX)
  THEN Ok(Slice(input, Len(O8_PREFIX)))
  ELSE IF IpfsMatch(input) # <<>> THEN Ok(IpfsMatch(input))
  ELSE IF validateCID(input) THEN Ok(input)
  ELSE Throw("DeclarationIdError")

\* ------------------------------------------------------------------------
\* validate.ts: the declaration schema
\* A JavaScript number n is the integer n * One, so that one decimal place
\* of fractions (0.5) and of non-integral durations is representable.
\* ------------------------------------------------------------------------
One == 10

Has(r, k) == k \in DOMAIN r

\* r with property k set to v
With(r, k, v) == [x \in DOMAIN r \cup {k} |-> IF x = k THEN v ELSE r[x]]

\* a property that is present and truthy (a non-empty string)
Truthy(r, k) == Has(r, k) /\ r[k] # <<>>

\* z.string().min(1)
NonEmpty(s) == Len(s) >= 1

AnyString(s) == TRUE

\* z.number().int().positive()
PositiveInt(n) == n % One = 0 /\ n > 0

\* z.number().min(0).max(1)
UnitInterval(n) == 0 <= n /\ n <= One

AIContributionValueSchema(n) == UnitInterval(n)

PrimaryArtistSchema(a) ==
  /\ Has(a, "name") /\ NonEmpty(a.name)
  /\ (Has(a, "wallet") => validateWalletAddress(a.wallet))
  /\ (Has(a, "signature") => AnyString(a.signature))

CollaboratorSchema(c) ==
  /\ Has(c, "name") /\ NonEmpty(c.name)
  /\ Has(c, "role") /\ NonEmpty(c.role)
  /\ (Has(c, "wallet") => validateWalletAddress(c.wallet))
  /\ (Has(c, "split") => UnitInterval(c.split))

ContributorSchema(c) ==
  /\ Has(c, "name") /\ NonEmpty(c.name)
  /\ Has(c, "role") /\ NonEmpty(c.role)
  /\ Has(c, "contribution") /\ NonEmpty(c.contribution)

IdentitySchema(i) ==
  /\ Has(i, "primary_artist") /\ PrimaryArtistSchema(i.primary_artist)
  /\ Has(i, "collaborators") /\ (\A j \in DOMAIN i.collaborators : CollaboratorSchema(i.collaborators[j]))
  /\ Has(i, "contributors") /\ (\A j \in DOMAIN i.contributors : ContributorSchema(i.contributors[j]))

AIModelSchema(m) ==
  /\ Has(m, "name") /\ NonEmpty(m.name)
  /\ Has(m, "provider") /\ NonEmpty(m.provider)
  /\ (Has(m, "version") => AnyString(m.version))
  /\ Has(m, "usage") /\ NonEmpty(m.usage)

SampleSchema(s) ==
  /\ Has(s, "name") /\ NonEmpty(s.name)
  /\ Has(s, "source") /\ NonEmpty(s.source)
  /\ (Has(s, "license") => AnyString(s.license))

CreativeStackSchema(c) ==
  /\ Has(c, "daws") /\ (\A j \in DOMAIN c.daws : AnyString(c.daws[j]))
  /\ Has(c, "plugins") /\ (\A j \in DOMAIN c.plugins : AnyString(c.plugins[j]))
  /\ Has(c, "ai_models") /\ (\A j \in DOMAIN c.ai_models : AIModelSchema(c.ai_models[j]))
  /\ Has(c, "hardware") /\ (\A j \in DOMAIN c.hardware : AnyString(c.hardware[j]))
  /\ Has(c, "samples") /\ (\A j \in DOMAIN c.samples : SampleSchema(c.samples[j]))

Phases == <<"composition", "arrangement", "production", "mixing", "mastering">>

AIContributionSchema(a) ==
  \A i \in DOMAIN Phases : Has(a, Phases[i]) /\ AIContributionValueSchema(a[Phases[i]])

ProductionIntelligenceSchema(p) ==
  /\ Has(p, "ai_contribution") /\ AIContributionSchema(p.ai_contribution)
  /\ Has(p, "methodology") /\ NonEmpty(p.methodology)
  /\ (Has(p, "notes") => AnyString(p.notes))

Relationships == {"sample", "remix", "cover", "interpolation"}

StemTypes == {"vocals", "drums", "bass", "melody", "harmony", "fx", "other"}

SourceMaterialSchema(m) ==
  /\ Has(m, "cid") /\ validateCID(m.cid)
  /\ Has(m, "description") /\ NonEmpty(m.description)
  /\ Has(m, "relationship") /\ m.relationship \in Relationships

SampleReferenceSchema(s) ==
  /\ Has(s, "cid") /\ validateCID(s.cid)
  /\ Has(s, "name") /\ NonEmpty(s.name)
  /\ (Has(s, "timestamp") => AnyString(s.timestamp))

StemSchema(s) ==
  /\ Has(s, "cid") /\ validateCID(s.cid)
  /\ Has(s, "name") /\ NonEmpty(s.name)
  /\ Has(s, "type") /\ s.type \in StemTypes

ProvenanceSchema(p) ==
  /\ (Has(p, "ipfs_cid") => validateCID(p.ipfs_cid))
  /\ Has(p, "source_material") /\ (\A j \in DOMAIN p.source_material : SourceMaterialSchema(p.source_material[j]))
  /\ Has(p, "samples") /\ (\A j \in DOMAIN p.samples : SampleReferenceSchema(p.samples[j]))
  /\ Has(p, "stems") /\ (\A j \in DOMAIN p.stems : StemSchema(p.stems[j]))

RevisionSchema(r) ==
  /\ Has(r, "version") /\ NonEmpty(r.version)
  /\ Has(r, "timestamp") /\ validateISO8601(r.timestamp)
  /\ Has(r, "changes") /\ NonEmpty(r.changes)
  /\ (Has(r, "previous_cid") => validateCID(r.previous_cid))

AudioFingerprintSchema(f) ==
  /\ Has(f, "sha256") /\ validateSha256(f.sha256)
  /\ Has(f, "duration_ms") /\ PositiveInt(f.duration_ms)
  /\ Has(f, "format") /\ NonEmpty(f.format)
  /\ (Has(f, "sample_rate") => PositiveInt(f.sample_rate))
  /\ (Has(f, "bit_depth") => PositiveInt(f.bit_depth))

SchemaVersion == <<"1", ".", "0">>

\* z.string().min(1, "Declaration ID is required")
DeclarationIdSchema(id) == NonEmpty(id)

\* the properties of DeclarationSchema, in the order the schema lists them
DeclarationFields ==
  <<"version", "declaration_id", "created_at", "updated_at", "identity",
    "creative_stack", "production_intelligence", "provenance",
    "revision_history", "audio_fingerprint">>

FieldSchema(k, v) ==
  CASE k = "version" -> v = SchemaVersion
    [] k = "declaration_id" -> DeclarationIdSchema(v)
    [] k = "created_at" -> validateISO8601(v)
    [] k = "updated_at" -> validateISO8601(v)
    [] k = "identity" -> IdentitySchema(v)
    [] k = "creative_stack" -> CreativeStackSchema(v)
    [] k = "production_intelligence" -> ProductionIntelligenceSchema(v)
    [] k = "provenance" -> ProvenanceSchema(v)
    [] k = "revision_history" -> (\A j \in DOMAIN v : RevisionSchema(v[j]))
    [] k = "audio_fingerprint" -> AudioFingerprintSchema(v)

FieldOk(d, k) == Has(d, k) /\ FieldSchema(k, d[k])

DeclarationSchema(d) == \A i \in DOMAIN DeclarationFields : FieldOk(d, DeclarationFields[i])

\* zod objects strip the properties the schema does not name
StripKeys(r, keys) == [k \in (DOMAIN r \cap keys) |-> r[k]]

StripAll(seq, keys) == [i \in DOMAIN seq |-> StripKeys(seq[i], keys)]

ParsedIdentity(i) ==
  [primary_artist |-> StripKeys(i.primary_artist, {"name", "wallet", "signature"}),
   collaborators |-> StripAll(i.collaborators, {"name", "role", "wallet", "split"}),
   contributors |-> StripAll(i.contributors, {"name", "role", "contribution"})]

ParsedCreativeStack(c) ==
  [daws |-> c.daws, plugins |-> c.plugins, hardware |-> c.hardware,
   ai_models |-> StripAll(c.ai_models, {"name", "provider", "version", "usage"}),
   samples |-> StripAll(c.samples, {"name", "source", "license"})]

ParsedProduction(p) ==
  [k \in (DOMAIN p \cap {"ai_contribution", "methodology", "notes"}) |->
     IF k = "ai_contribution" THEN StripKeys(p[k], Range(Phases)) ELSE p[k]]

ParsedProvenance(p) ==
  [k \in (DOMAIN p \cap {"ipfs_cid", "source_material", "samples", "stems"}) |->
     CASE k = "ipfs_cid" -> p[k]
       [] k = "source_material" -> StripAll(p[k], {"cid", "description", "relationship"})
       [] k = "samples" -> StripAll(p[k], {"cid", "name", "timestamp"})
       [] k = "stems" -> StripAll(p[k], {"cid", "name", "type"})]

ParsedDeclaration(d) ==
  [k \in Range(DeclarationFields) |->
     CASE k = "identity" -> ParsedIdentity(d[k])
       [] k = "creative_stack" -> ParsedCreativeStack(d[k])
       [] k = "production_intelligence" -> ParsedProduction(d[k])
       [] k = "provenance" -> ParsedProvenance(d[k])
       [] k = "revision_history" ->
            StripAll(d[k], {"version", "timestamp", "changes", "previous_cid"})
       [] k = "audio_fingerprint" ->
            StripKeys(d[k], {"sha256", "duration_ms", "format", "sample_rate", "bit_depth"})
       [] OTHER -> d[k]]

\* one message per failing property, in schema order
SchemaErrors(d) ==
  SelectSeq(DeclarationFields, LAMBDA k : ~FieldOk(d, k))

validateDeclaration(data) ==
  IF DeclarationSchema(data)
  THEN [valid |-> TRUE, data |-> ParsedDeclaration(data)]
  ELSE [valid |-> FALSE, errors |-> SchemaErrors(data)]

\* ------------------------------------------------------------------------
\* Sample values the inputs are drawn from
\* ------------------------------------------------------------------------
CidA == <<"Q", "m">> \o Rep(CidV0Body, "a")

CidB == <<"Q", "m">> \o Rep(CidV0Body, "b")

CidC == <<"b", "a">> \o Rep(CidV1Body, "f")

\* one character short of a v0 address
CidShort == <<"Q", "m">> \o Rep(CidV0Body - 1, "a")

Garbage == <<"x", "y", "z">>

WalletA == <<"0", "x">> \o Rep(WalletBody, "a")

WalletBad == <<"0", "x">> \o Rep(WalletBody - 1, "a")

ShaA == Rep(Sha256Len, "a")

ShaB == Rep(Sha256Len, "b")

Blank == <<" ">>

NameA == <<"A">>

NameB == <<"B">>

Padded == <<" ", "M", " ">>

Sig == <<"s", "i", "g">>

Wav == <<"w", "a", "v">>

Uuid1 ==
  Rep(8, "1") \o <<"-">> \o Rep(4, "1") \o <<"-">> \o Rep(4, "1") \o <<"-">>
    \o Rep(4, "1") \o <<"-">> \o Rep(12, "1")

Uuid2 ==
  Rep(8, "2") \o <<"-">> \o Rep(4, "2") \o <<"-">> \o Rep(4, "2") \o <<"-">>
    \o Rep(4, "2") \o <<"-">> \o Rep(12, "2")

Uuids == {Uuid1, Uuid2}

\* ------------------------------------------------------------------------
\* The clock: new Date().toISOString() for a time of t milliseconds
\* ------------------------------------------------------------------------
DigitSeq == <<"0", "1", "2", "3", "4", "5", "6", "7", "8", "9">>

DigitOf(n) == DigitSeq[n + 1]

toISOString(t) ==
  <<"1", "9", "7", "0", "-", "0", "1", "-", "0", "1", "T",
    "0", "0", ":", "0", "0", ":",
    DigitOf((t \div 10000) % 6), DigitOf((t \div 1000) % 10), ".",
    DigitOf((t \div 100) % 10), DigitOf((t \div 10) % 10), DigitOf(t % 10), "Z">>

\* createPendingId / the builder's `o8-pending-${randomUUID()}`
createPendingId(uuid) == O8_PENDING_PREFIX \o uuid

\* ------------------------------------------------------------------------
\* builder.ts: DeclarationBuilder
\* Every setter is an operator from the draft, its argument and the time
\* of the call to [threw, draft]: the draft as the call leaves it.
\* ------------------------------------------------------------------------
\* `!s || s.trim() === ""`
Missing(s) == s = <<>> \/ Trim(s) = <<>>

Threw(d) == [threw |-> TRUE, draft |-> d]

\* a refresh that moves created_at along
updateTimestampBoth(d, t) ==
  [d EXCEPT !.updated_at = toISOString(t), !.created_at = toISOString(t)]

\* updateTimestamp
updateTimestamp(d, t) == [d EXCEPT !.updated_at = toISOString(t)]

Done(d, t) == [threw |-> FALSE, draft |-> updateTimestamp(d, t)]

\* constructor
NewDraft(uuid, t) ==
  [version |-> SchemaVersion,
   declaration_id |-> createPendingId(uuid),
   created_at |-> toISOString(t),
   updated_at |-> toISOString(t),
   identity |-> [primary_artist |-> [name |-> <<>>],
                 collaborators |-> <<>>,
                 contributors |-> <<>>],
   creative_stack |-> [daws |-> <<>>, plugins |-> <<>>, ai_models |-> <<>>,
                       hardware |-> <<>>, samples |-> <<>>],
   production_intelligence |->
     [ai_contribution |-> [composition |-> 0, arrangement |-> 0, production |-> 0,
                           mixing |-> 0, mastering |-> 0],
      methodology |-> <<>>],
   provenance |-> [source_material |-> <<>>, samples |-> <<>>, stems |-> <<>>],
   revision_history |-> <<>>,
   audio_fingerprint |-> [sha256 |-> <<>>, duration_ms |-> 0, format |-> <<>>]]

setArtist(d, artist, t) ==
  IF Missing(artist.name) THEN Threw(d)
  ELSE IF (Truthy(artist, "wallet") /\ ~validateWalletAddress(artist.wallet)) THEN Threw(d)
  ELSE Done([d EXCEPT !.identity.primary_artist = artist], t)

\* addCollaborator with the push moved ahead of the wallet and split checks
addCollaboratorEager(d, c, t) ==
  LET pushed == [d EXCEPT !.identity.collaborators = Append(@, c)]
  IN IF Missing(c.name) THEN Threw(d)
     ELSE IF Missing(c.role) THEN Threw(d)
     ELSE IF (Truthy(c, "wallet") /\ ~validateWalletAddress(c.wallet)) THEN Threw(pushed)
     ELSE IF Has(c, "split") /\ (c.split < 0 \/ c.split > One) THEN Threw(pushed)
     ELSE Done(pushed, t)

addCollaborator(d, c, t) ==
  IF Missing(c.name) THEN Threw(d)
  ELSE IF Missing(c.role) THEN Threw(d)
  ELSE IF (Truthy(c, "wallet") /\ ~validateWalletAddress(c.wallet)) THEN Threw(d)
  ELSE IF Has(c, "split") /\ (c.split < 0 \/ c.split > One) THEN Threw(d)
  ELSE Done([d EXCEPT !.identity.collaborators = Append(@, c)], t)

addContributor(d, c, t) ==
  IF Missing(c.name) THEN Threw(d)
  ELSE IF Missing(c.role) THEN Threw(d)
  ELSE IF Missing(c.contribution) THEN Threw(d)
  ELSE Done([d EXCEPT !.identity.contributors = Append(@, c)], t)

addDAW(d, daw, t) ==
  IF Missing(daw) THEN Threw(d)
  ELSE Done([d EXCEPT !.creative_stack.daws = Append(@, Trim(daw))], t)

\* daws.filter((d) => d && d.trim() !== "")
KeepNamed(list) == SelectSeq(list, LAMBDA x : ~Missing(x))

setDAWs(d, daws, t) == Done([d EXCEPT !.creative_stack.daws = KeepNamed(daws)], t)

addPlugin(d, plugin, t) ==
  IF Missing(plugin) THEN Threw(d)
  ELSE Done([d EXCEPT !.creative_stack.plugins = Append(@, Trim(plugin))], t)

setPlugins(d, plugins, t) ==
  Done([d EXCEPT !.creative_stack.plugins = KeepNamed(plugins)], t)

addAIModel(d, model, t) ==
  IF Missing(model.name) THEN Threw(d)
  ELSE IF Missing(model.provider) THEN Threw(d)
  ELSE IF Missing(model.usage) THEN Threw(d)
  ELSE Done([d EXCEPT !.creative_stack.ai_models = Append(@, model)], t)

addHardware(d, hardware, t) ==
  IF Missing(hardware) THEN Threw(d)
  ELSE Done([d EXCEPT !.creative_stack.hardware = Append(@, Trim(hardware))], t)

addSample(d, sample, t) ==
  IF Missing(sample.name) THEN Threw(d)
  ELSE IF Missing(sample.source) THEN Threw(d)
  ELSE Done([d EXCEPT !.creative_stack.samples = Append(@, sample)], t)

setAIContribution(d, contribution, t) ==
  IF \E i \in DOMAIN Phases :
       contribution[Phases[i]] < 0 \/ contribution[Phases[i]] > One
  THEN Threw(d)
  ELSE Done([d EXCEPT !.production_intelligence.ai_contribution = contribution], t)

setMethodology(d, methodology, t) ==
  IF Missing(methodology) THEN Threw(d)
  ELSE Done([d EXCEPT !.production_intelligence.methodology = Trim(methodology)], t)

setNotes(d, notes, t) ==
  Done([d EXCEPT !.production_intelligence =
          [k \in DOMAIN @ \cup {"notes"} |-> IF k = "notes" THEN Trim(notes) ELSE @[k]]], t)

setIPFSCID(d, cid, t) ==
  IF ~validateCID(cid) THEN Threw(d)
  ELSE Done([d EXCEPT !.provenance =
               [k \in DOMAIN @ \cup {"ipfs_cid"} |-> IF k = "ipfs_cid" THEN cid ELSE @[k]]], t)

addSourceMaterial(d, source, t) ==
  IF ~validateCID(source.cid) THEN Threw(d)
  ELSE IF Missing(source.description) THEN Threw(d)
  ELSE Done([d EXCEPT !.provenance.source_material = Append(@, source)], t)

addSampleReference(d, sample, t) ==
  IF ~validateCID(sample.cid) THEN Threw(d)
  ELSE IF Missing(sample.name) THEN Threw(d)
  ELSE Done([d EXCEPT !.provenance.samples = Append(@, sample)], t)

addStem(d, stem, t) ==
  IF ~validateCID(stem.cid) THEN Threw(d)
  ELSE IF Missing(stem.name) THEN Threw(d)
  ELSE Done([d EXCEPT !.provenance.stems = Append(@, stem)], t)

setAudioFingerprint(d, fingerprint, t) ==
  IF ~validateSha256(fingerprint.sha256) THEN Threw(d)
  ELSE IF fingerprint.duration_ms <= 0 THEN Threw(d)
  ELSE IF Missing(fingerprint.format) THEN Threw(d)
  ELSE Done([d EXCEPT !.audio_fingerprint = fingerprint], t)

\* addRevision(version, changes, previousCID?): r.previous_cid is absent
\* when no previousCID is passed
addRevision(d, r, t) ==
  IF Missing(r.version) THEN Threw(d)
  ELSE IF Missing(r.changes) THEN Threw(d)
  ELSE IF (Truthy(r, "previous_cid") /\ ~validateCID(r.previous_cid)) THEN Threw(d)
  ELSE LET base == [version |-> Trim(r.version),
                    timestamp |-> toISOString(t),
                    changes |-> Trim(r.changes)]
           entry == IF Has(r, "previous_cid") /\ r.previous_cid # <<>>
                    THEN [k \in DOMAIN base \cup {"previous_cid"} |->
                            IF k = "previous_cid" THEN r.previous_cid ELSE base[k]]
                    ELSE base
       IN Done([d EXCEPT !.revision_history = Append(@, entry)], t)

setDeclarationId(d, id, t) ==
  IF Missing(id) THEN Threw(d)
  ELSE Done([d EXCEPT !.declaration_id = Trim(id)], t)

\* build(): [threw, draft, value]; value is the returned declaration
\* build() without the full-schema pass: the presence checks only
buildUnchecked(d, t) ==
  IF Missing(d.identity.primary_artist.name) THEN [threw |-> TRUE, draft |-> d, value |-> <<>>]
  ELSE IF Missing(d.production_intelligence.methodology)
  THEN [threw |-> TRUE, draft |-> d, value |-> <<>>]
  ELSE IF d.audio_fingerprint.sha256 = <<>> THEN [threw |-> TRUE, draft |-> d, value |-> <<>>]
  ELSE [threw |-> FALSE, draft |-> updateTimestamp(d, t),
        value |-> <<updateTimestamp(d, t)>>]

build(d, t) ==
  IF Missing(d.identity.primary_artist.name) THEN [threw |-> TRUE, draft |-> d, value |-> <<>>]
  ELSE IF Missing(d.production_intelligence.methodology)
  THEN [threw |-> TRUE, draft |-> d, value |-> <<>>]
  ELSE IF d.audio_fingerprint.sha256 = <<>> THEN [threw |-> TRUE, draft |-> d, value |-> <<>>]
  ELSE LET stamped == updateTimestamp(d, t)
           result == validateDeclaration(stamped)
       IN IF ~result.valid THEN [threw |-> TRUE, draft |-> stamped, value |-> <<>>]
          ELSE [threw |-> FALSE, draft |-> stamped, value |-> <<result.data>>]

\* ------------------------------------------------------------------------
\* fingerprint.ts
\* A file is [exists, sha256, parsed, duration_ms, container]: the digest of
\* its bytes and what the metadata parser reports for it.
\* ------------------------------------------------------------------------
SUPPORTED_FORMATS ==
  {<<".", "w", "a", "v">>, <<".", "m", "p", "3">>, <<".", "f", "l", "a", "c">>,
   <<".", "a", "i", "f", "f">>, <<".", "a", "i", "f">>, <<".", "m", "4", "a">>,
   <<".", "o", "g", "g">>, <<".", "o", "p", "u", "s">>}

\* path.extname for a plain file name: from the last "." on
extname(path) ==
  LET dots == {i \in 2..Len(path) : path[i] = "."}
  IN IF dots = {} THEN <<>>
     ELSE SubSeq(path, CHOOSE i \in dots : \A j \in dots : i >= j, Len(path))

isSupportedFormat(path) == ToLower(extname(path)) \in SUPPORTED_FORMATS

extractMetadata(path, file) ==
  LET ext == Slice(ToLower(extname(path)), 1)
  IN IF file.parsed
     THEN [duration_ms |-> file.duration_ms,
           format |-> IF file.container # <<>> THEN file.container ELSE ext]
     ELSE [duration_ms |-> 0, format |-> ext]

fingerprintAudio(path, file) ==
  IF ~file.exists THEN Throw("FingerprintError")
  ELSE IF ~isSupportedFormat(path) THEN Throw("FingerprintError")
  ELSE Ok(With(extractMetadata(path, file), "sha256", file.sha256))

\* a comparison that takes the case of the format into account
verifyFingerprintCaseSensitive(path, file, declared) ==
  LET fp == fingerprintAudio(path, file)
  IN IF ~fp.ok THEN fp
     ELSE LET computed == fp.value
              hashMatch == computed.sha256 = declared.sha256
              durationMatch == computed.duration_ms = declared.duration_ms
              formatMatch == computed.format = declared.format
              valid == hashMatch /\ durationMatch /\ formatMatch
              base == [valid |-> valid, computed |-> computed, declared |-> declared]
          IN Ok(IF valid THEN base
                ELSE With(base, "mismatch",
                          [hash |-> ~hashMatch, duration |-> ~durationMatch,
                           format |-> ~formatMatch]))

verifyFingerprint(path, file, declared) ==
  LET fp == fingerprintAudio(path, file)
  IN IF ~fp.ok THEN fp
     ELSE LET computed == fp.value
              hashMatch == computed.sha256 = declared.sha256
              durationMatch == computed.duration_ms = declared.duration_ms
              formatMatch == ToLower(computed.format) = ToLower(declared.format)
              valid == hashMatch /\ durationMatch /\ formatMatch
              base == [valid |-> valid, computed |-> computed, declared |-> declared]
          IN Ok(IF valid THEN base
                ELSE With(base, "mismatch",
                          [hash |-> ~hashMatch, duration |-> ~durationMatch,
                           format |-> ~formatMatch]))

\* ------------------------------------------------------------------------
\* verify/index.ts
\* ------------------------------------------------------------------------
createFailedResult(error, timestamp) ==
  [valid |-> FALSE,
   declaration |-> <<>>,
   checks |-> [schema |-> [valid |-> FALSE, errors |-> <<error>>]],
   timestamp |-> timestamp]

verifyDeclarationObject(declaration, timestamp) ==
  LET schemaValidation == validateDeclaration(declaration)
  IN IF ~schemaValidation.valid
     THEN [valid |-> FALSE,
           declaration |-> declaration,
           checks |-> [schema |-> [valid |-> FALSE, errors |-> schemaValidation.errors]],
           timestamp |-> timestamp]
     ELSE [valid |-> TRUE,
           declaration |-> schemaValidation.data,
           checks |-> [schema |-> [valid |-> TRUE]],
           timestamp |-> timestamp]

MissingSignature == <<" ", "(", "m", "i", "s", "s", "i", "n", "g", " ",
                      "s", "i", "g", "n", "a", "t", "u", "r", "e", ")">>

\* the names pushed for the collaborators, in order
RECURSIVE CollaboratorsVerified(_)
CollaboratorsVerified(collaborators) ==
  IF collaborators = <<>> THEN <<>>
  ELSE (IF Truthy(Head(collaborators), "wallet") THEN <<Head(collaborators).name>> ELSE <<>>)
         \o CollaboratorsVerified(Tail(collaborators))

verifySignatures(declaration) ==
  LET primary_artist == declaration.identity.primary_artist
      signed == Truthy(primary_artist, "signature") /\ Truthy(primary_artist, "wallet")
      unsigned == ~signed /\ Truthy(primary_artist, "wallet")
                    /\ ~Truthy(primary_artist, "signature")
      verified == (IF signed THEN <<primary_artist.name>> ELSE <<>>)
                    \o CollaboratorsVerified(declaration.identity.collaborators)
      failed == IF unsigned THEN <<primary_artist.name \o MissingSignature>> ELSE <<>>
      r0 == [valid |-> failed = <<>>]
      r1 == IF Len(verified) > 0 THEN With(r0, "verified", verified) ELSE r0
  IN IF Len(failed) > 0 THEN With(r1, "failed", failed) ELSE r1

Cids(list) == [i \in DOMAIN list |-> list[i].cid]

\* the entries of a list, each kept where it comes first
RECURSIVE Once(_)
Once(list) ==
  IF list = <<>> THEN <<>>
  ELSE LET front == Once(SubSeq(list, 1, Len(list) - 1))
           last == list[Len(list)]
       IN IF \E i \in DOMAIN front : front[i] = last THEN front ELSE Append(front, last)

\* a collection that probes an address once however often it is referenced
provenanceSourcesOnce(declaration) ==
  LET p == declaration.provenance
  IN Once((IF Truthy(p, "ipfs_cid") THEN <<p.ipfs_cid>> ELSE <<>>)
            \o Cids(p.source_material) \o Cids(p.samples) \o Cids(p.stems))

\* verifyProvenance, lines 249-266: the addresses to probe, in order
provenanceSources(declaration) ==
  LET p == declaration.provenance
  IN (IF Truthy(p, "ipfs_cid") THEN <<p.ipfs_cid>> ELSE <<>>)
       \o Cids(p.source_material) \o Cids(p.samples) \o Cids(p.stems)

\* verifyProvenance, lines 285-289
\* a verdict that is satisfied by any one resolving address
provenanceVerdictAny(checked, validCount) ==
  [valid |-> checked = 0 \/ validCount > 0,
   sources_checked |-> checked,
   sources_valid |-> validCount]

provenanceVerdict(checked, validCount) ==
  [valid |-> validCount = checked,
   sources_checked |-> checked,
   sources_valid |-> validCount]

IdMismatch == "Declaration ID mismatch"

\* verifyDeclaration, lines 84-117: [result, next]
\* the schema check without its early return
schemaStepThrough(declaration, cid, timestamp) ==
  LET schemaValidation == validateDeclaration(declaration)
  IN [result |-> [valid |-> schemaValidation.valid,
                  declaration |-> declaration,
                  checks |-> [schema |-> [valid |-> schemaValidation.valid]],
                  timestamp |-> timestamp],
      next |-> "fingerprint"]

schemaStep(declaration, cid, timestamp) ==
  LET schemaValidation == validateDeclaration(declaration)
      result == [valid |-> TRUE,
                 declaration |-> declaration,
                 checks |-> [schema |-> [valid |-> TRUE]],
                 timestamp |-> timestamp]
  IN IF ~schemaValidation.valid
     THEN [result |-> [result EXCEPT
                         !.valid = FALSE,
                         !.checks.schema = [valid |-> FALSE,
                                            errors |-> schemaValidation.errors]],
           next |-> "done"]
     ELSE IF /\ declaration.declaration_id # <<>>
             /\ declaration.declaration_id # O8_PREFIX \o cid
             /\ ~isPendingId(declaration.declaration_id)
     THEN [result |-> [result EXCEPT
                         !.checks.schema = With(@, "errors", <<IdMismatch>>)],
           next |-> "fingerprint"]
     ELSE [result |-> result, next |-> "fingerprint"]

\* verifyDeclaration, lines 119-143
\* the fingerprint check recording a mismatch without touching result.valid
fingerprintStepLenient(result, options, files) ==
  IF ~Truthy(options, "audioFile") THEN result
  ELSE LET declared == result.declaration.audio_fingerprint
           r == verifyFingerprint(options.audioFile, files[options.audioFile], declared)
       IN IF r.ok
          THEN [result EXCEPT
                  !.checks = With(@, "fingerprint",
                                  [valid |-> r.value.valid,
                                   computed |-> r.value.computed.sha256,
                                   declared |-> r.value.declared.sha256])]
          ELSE [result EXCEPT
                  !.checks = With(@, "fingerprint",
                                  [valid |-> FALSE, declared |-> declared.sha256]),
                  !.valid = FALSE]

fingerprintStep(result, options, files) ==
  IF ~Truthy(options, "audioFile") THEN result
  ELSE LET declared == result.declaration.audio_fingerprint
           r == verifyFingerprint(options.audioFile, files[options.audioFile], declared)
       IN IF r.ok
          THEN [result EXCEPT
                  !.checks = With(@, "fingerprint",
                                  [valid |-> r.value.valid,
                                   computed |-> r.value.computed.sha256,
                                   declared |-> r.value.declared.sha256]),
                  !.valid = IF ~r.value.valid THEN FALSE ELSE @]
          ELSE [result EXCEPT
                  !.checks = With(@, "fingerprint",
                                  [valid |-> FALSE, declared |-> declared.sha256]),
                  !.valid = FALSE]

\* options.checkSignatures / options.checkProvenance
Requested(options, k) == Has(options, k) /\ options[k] = TRUE

\* verifyDeclaration, lines 145-152
\* the signature check run whether or not options.checkSignatures is set
signatureStepAlways(result, options) ==
  LET signatureCheck == verifySignatures(result.declaration)
  IN [result EXCEPT
        !.checks = With(@, "signatures", signatureCheck),
        !.valid = IF ~signatureCheck.valid THEN FALSE ELSE @]

signatureStep(result, options) ==
  IF ~Requested(options, "checkSignatures") THEN result
  ELSE LET signatureCheck == verifySignatures(result.declaration)
       IN [result EXCEPT
             !.checks = With(@, "signatures", signatureCheck),
             !.valid = IF ~signatureCheck.valid THEN FALSE ELSE @]

\* verifyDeclaration, lines 156-161
provenanceStep(result, provenanceCheck) ==
  [result EXCEPT
     !.checks = With(@, "provenance", provenanceCheck),
     !.valid = IF ~provenanceCheck.valid THEN FALSE ELSE @]

\* ------------------------------------------------------------------------
\* ipfs/client.ts
\* A response of the store is [kind |-> "abort"] when the request times out
\* or the connection fails, else [kind |-> "http", ok, parses, json].
\* ------------------------------------------------------------------------
Retries == 3

DefaultGateway ==
  <<"h", "t", "t", "p", "s", ":", "/", "/", "i", "p", "f", "s", ".", "i", "o">>

\* an error raised with a cause
Raise(e, cause) == [ok |-> FALSE, error |-> e, cause |-> cause]

\* what fetch() rejects with when no response arrives
RejectionOf(response) ==
  IF Has(response, "why") /\ response.why = "timeout" THEN "TimeoutError" ELSE "TypeError"

\* String(undefined), which RegExp.prototype.test sees for a missing Hash
Undefined == <<"u", "n", "d", "e", "f", "i", "n", "e", "d">>

\* IPFSClient.publish, lines 105-123: one pass through the loop body
publishAttempt(response, gateway) ==
  IF response.kind = "abort" THEN Throw(RejectionOf(response))
  ELSE IF ~response.ok THEN Throw("Error")
  ELSE IF ~response.parses THEN Throw("SyntaxError")
  ELSE LET hash == IF Has(response.json, "Hash") THEN response.json.Hash ELSE Undefined
           id == generateDeclarationId(hash)
       IN IF ~id.ok THEN id
          ELSE Ok([cid |-> hash,
                   declarationId |-> id.value,
                   gatewayUrl |-> getGatewayUrl(hash, gateway)])

\* Math.pow(2, attempt)
RECURSIVE Pow2(_)
Pow2(n) == IF n = 0 THEN 1 ELSE 2 * Pow2(n - 1)

\* a retry loop that allows one attempt more than the budget
retryStepExtra(attempt, r) ==
  IF r.ok THEN [done |-> TRUE, outcome |-> r, delay |-> 0]
  ELSE IF attempt < Retries
  THEN [done |-> FALSE, lastError |-> r.error, delay |-> Pow2(attempt) * 1000]
  ELSE [done |-> TRUE, outcome |-> Raise("IPFSError", r.error), delay |-> 0]

\* the loop of publish (lines 104-137) and of fetch (lines 146-183) around
\* one attempt with outcome r: return, sleep and go on, or give up
retryStep(attempt, r) ==
  IF r.ok THEN [done |-> TRUE, outcome |-> r, delay |-> 0]
  ELSE IF attempt < Retries - 1
  THEN [done |-> FALSE, lastError |-> r.error, delay |-> Pow2(attempt) * 1000]
  ELSE [done |-> TRUE, outcome |-> Raise("IPFSError", r.error), delay |-> 0]

\* a pin that asks again after a failure
pinRetrying(cid, answers) ==
  LET ok(i) == answers[i].kind = "http" /\ answers[i].ok
      n == IF \E i \in DOMAIN answers : ok(i)
           THEN CHOOSE i \in DOMAIN answers : ok(i) /\ \A j \in 1..(i - 1) : ~ok(j)
           ELSE Len(answers)
  IN [sent |-> [i \in 1..n |->
                  [method |-> "POST", url |-> <<"/api/v0/pin/add?arg=">> \o cid,
                   error |-> IF ok(i) THEN "none" ELSE "IPFSError", delay |-> 0]],
      outcome |-> IF ok(n) THEN Ok(<<>>) ELSE Throw("IPFSError")]

\* IPFSClient.pin; answers is what the store answers to successive requests
pin(cid, answers) ==
  LET response == answers[1]
      outcome == IF response.kind = "abort" THEN Throw(RejectionOf(response))
                 ELSE IF ~response.ok THEN Throw("IPFSError")
                 ELSE Ok(<<>>)
  IN [sent |-> <<[method |-> "POST", url |-> <<"/api/v0/pin/add?arg=">> \o cid,
                  error |-> IF outcome.ok THEN "none" ELSE outcome.error,
                  delay |-> 0]>>,
      outcome |-> outcome]

\* a fetch attempt that hands back the payload as received
fetchAttemptUnvalidated(response) ==
  IF response.kind = "abort" THEN Throw("AbortError")
  ELSE IF ~response.ok THEN Throw("Error")
  ELSE IF ~response.parses THEN Throw("SyntaxError")
  ELSE Ok(response.json)

\* IPFSClient.fetch, lines 147-169: one pass through the loop body
fetchAttempt(response) ==
  IF response.kind = "abort" THEN Throw("AbortError")
  ELSE IF ~response.ok THEN Throw("Error")
  ELSE IF ~response.parses THEN Throw("SyntaxError")
  ELSE LET validation == validateDeclaration(response.json)
       IN IF ~validation.valid THEN Throw("IPFSError") ELSE Ok(validation.data)

\* an exists without its catch
existsUnguarded(response) ==
  IF response.kind = "abort" THEN Throw(RejectionOf(response)) ELSE Ok(response.ok)

\* IPFSClient.exists
exists(response) == IF response.kind = "abort" THEN Ok(FALSE) ELSE Ok(response.ok)

\* ------------------------------------------------------------------------
\* State
\* ------------------------------------------------------------------------
VARIABLES
  now,        \* the clock, in milliseconds
  draft,      \* DeclarationBuilder.declaration
  built,      \* <<d>> once build() has returned d, else <<>>
  lastCall,   \* the builder method called last and whether it threw
  calls,      \* number of builder calls made
  pc,         \* where the verification run stands
  request,    \* its arguments: [cidOrId, options], or [object]
  cid,        \* verifyDeclaration's cid
  attempt,    \* IPFSClient.fetch's attempt
  result,     \* the VerificationResult under construction, then returned
  sources,    \* verifyProvenance's sources
  validCount, \* verifyProvenance's validCount
  netlog,     \* the requests sent to the store, in order
  args,       \* the arguments the helper functions are applied to
  calllog,    \* the helper calls made: [fn, arg, ret], in order
  ipfs,       \* the IPFSClient call in progress, or <<>>
  returned,   \* the IPFSClient call that finished last: [op, arg, sent, outcome]
  published,  \* the PublishResult the caller holds, or <<>>
  declFile,   \* the declaration file the publish command reads and rewrites
  store,      \* what the content store holds: store[i] is at StoreCids[i]
  chain,      \* the contracts' storage and every account's balance
  sends,      \* the sendRevenue transactions made, in order
  tasks,      \* the calls running concurrently: each one's frame
  heap        \* the objects the running calls have created

builderVars == <<draft, built, lastCall, calls>>

verifyVars == <<pc, request, cid, attempt, result, sources, validCount, netlog>>

pureVars == <<args, calllog>>

clientVars == <<ipfs, returned, published>>

cliVars == <<declFile, store>>

chainVars == <<chain, sends>>

taskVars == <<tasks, heap>>

vars == <<now, draft, built, lastCall, calls,
          pc, request, cid, attempt, result, sources, validCount, netlog,
          args, calllog, ipfs, returned, published,
          declFile, store, chain, sends, tasks, heap>>

MaxCalls == 2

MaxClock == 1

\* no verification run has started
VerifyIdle ==
  /\ pc = "idle"
  /\ request = <<>>
  /\ cid = <<>>
  /\ attempt = 0
  /\ result = <<>>
  /\ sources = <<>>
  /\ validCount = 0
  /\ netlog = <<>>

\* no helper call has been made
PureIdle ==
  /\ args = <<>>
  /\ calllog = <<>>

\* no IPFSClient call has been made
ClientIdle ==
  /\ ipfs = <<>>
  /\ returned = <<>>
  /\ published = <<>>

\* no declaration file, an empty store
CliIdle ==
  /\ declFile = <<>>
  /\ store = <<>>

\* no contract deployed
ChainIdle ==
  /\ chain = <<>>
  /\ sends = <<>>

\* no concurrent calls
TasksIdle ==
  /\ tasks = <<>>
  /\ heap = <<>>

\* ------------------------------------------------------------------------
\* Builder inputs
\* ------------------------------------------------------------------------
ArtistInputs ==
  {[name |-> NameA],
   [name |-> NameA, wallet |-> WalletA, signature |-> Sig],
   [name |-> NameA, wallet |-> <<>>],
   [name |-> Blank],
   [name |-> NameA, wallet |-> WalletBad]}

CollaboratorInputs ==
  {[name |-> NameB, role |-> NameA, wallet |-> WalletA, split |-> 5],
   [name |-> NameB, role |-> NameA, split |-> 15],
   [name |-> NameB, role |-> Blank]}

ContributorInputs ==
  {[name |-> NameB, role |-> NameA, contribution |-> NameA],
   [name |-> NameB, role |-> NameA, contribution |-> <<>>]}

NameInputs == {Padded, Blank}

ListInputs == {<<NameA, Blank>>}

AIModelInputs ==
  {[name |-> NameA, provider |-> NameB, usage |-> NameA],
   [name |-> NameA, provider |-> Blank, usage |-> NameA]}

SampleInputs ==
  {[name |-> NameA, source |-> NameB],
   [name |-> NameA, source |-> <<>>]}

ContributionInputs ==
  {[composition |-> 4, arrangement |-> 2, production |-> 1, mixing |-> 0, mastering |-> One],
   [composition |-> 4, arrangement |-> 2, production |-> 1, mixing |-> 0, mastering |-> One + 1]}

CidInputs == {CidA, CidShort}

SourceMaterialInputs ==
  {[cid |-> CidA, description |-> NameA, relationship |-> "remix"],
   [cid |-> CidA, description |-> NameA, relationship |-> "mashup"],
   [cid |-> Garbage, description |-> NameA, relationship |-> "remix"]}

SampleReferenceInputs ==
  {[cid |-> CidB, name |-> NameA],
   [cid |-> CidB, name |-> Blank]}

StemInputs ==
  {[cid |-> CidC, name |-> NameA, type |-> "drums"],
   [cid |-> CidShort, name |-> NameA, type |-> "drums"]}

FingerprintInputs ==
  {[sha256 |-> ShaA, duration_ms |-> 1000 * One, format |-> Wav],
   [sha256 |-> ShaA, duration_ms |-> 5, format |-> Wav],
   [sha256 |-> Garbage, duration_ms |-> 1000 * One, format |-> Wav],
   [sha256 |-> ShaA, duration_ms |-> 0, format |-> Wav]}

RevisionInputs ==
  {[version |-> <<"2">>, changes |-> Padded, previous_cid |-> CidA],
   [version |-> <<"2">>, changes |-> Blank]}

DeclarationIdInputs == {<<" ">> \o O8_PREFIX \o CidA, Garbage, Blank}

\* ------------------------------------------------------------------------
\* Builder actions
\* ------------------------------------------------------------------------
Tick ==
  /\ now < MaxClock
  /\ now' = now + 1
  /\ UNCHANGED <<builderVars, verifyVars, pureVars, clientVars, cliVars, chainVars, taskVars>>

Mutate(op, r) ==
  /\ calls < MaxCalls
  /\ draft' = r.draft
  /\ lastCall' = [op |-> op, threw |-> r.threw]
  /\ calls' = calls + 1
  /\ UNCHANGED <<now, built, verifyVars, pureVars, clientVars, cliVars, chainVars, taskVars>>

SetArtist == \E a \in ArtistInputs : Mutate("setArtist", setArtist(draft, a, now))

AddCollaborator ==
  \E c \in CollaboratorInputs : Mutate("addCollaborator", addCollaborator(draft, c, now))

AddContributor ==
  \E c \in ContributorInputs : Mutate("addContributor", addContributor(draft, c, now))

AddDAW == \E x \in NameInputs : Mutate("addDAW", addDAW(draft, x, now))

SetDAWs == \E l \in ListInputs : Mutate("setDAWs", setDAWs(draft, l, now))

AddPlugin == \E x \in NameInputs : Mutate("addPlugin", addPlugin(draft, x, now))

SetPlugins == \E l \in ListInputs : Mutate("setPlugins", setPlugins(draft, l, now))

AddAIModel == \E m \in AIModelInputs : Mutate("addAIModel", addAIModel(draft, m, now))

AddHardware == \E x \in NameInputs : Mutate("addHardware", addHardware(draft, x, now))

AddSample == \E x \in SampleInputs : Mutate("addSample", addSample(draft, x, now))

SetAIContribution ==
  \E c \in ContributionInputs : Mutate("setAIContribution", setAIContribution(draft, c, now))

SetMethodology == \E m \in NameInputs : Mutate("setMethodology", setMethodology(draft, m, now))

SetNotes == \E n \in NameInputs : Mutate("setNotes", setNotes(draft, n, now))

SetIPFSCID == \E c \in CidInputs : Mutate("setIPFSCID", setIPFSCID(draft, c, now))

AddSourceMaterial ==
  \E x \in SourceMaterialInputs : Mutate("addSourceMaterial", addSourceMaterial(draft, x, now))

AddSampleReference ==
  \E x \in SampleReferenceInputs :
    Mutate("addSampleReference", addSampleReference(draft, x, now))

AddStem == \E x \in StemInputs : Mutate("addStem", addStem(draft, x, now))

SetAudioFingerprint ==
  \E f \in FingerprintInputs :
    Mutate("setAudioFingerprint", setAudioFingerprint(draft, f, now))

AddRevision == \E r \in RevisionInputs : Mutate("addRevision", addRevision(draft, r, now))

SetDeclarationId ==
  \E id \in DeclarationIdInputs : Mutate("setDeclarationId", setDeclarationId(draft, id, now))

Build ==
  /\ calls < MaxCalls
  /\ LET r == build(draft, now)
     IN /\ draft' = r.draft
        /\ built' = IF r.threw THEN built ELSE r.value
        /\ lastCall' = [op |-> "build", threw |-> r.threw]
  /\ calls' = calls + 1
  /\ UNCHANGED <<now, verifyVars, pureVars, clientVars, cliVars, chainVars, taskVars>>

\* a draft on which the three fields build() requires have been set
Prepared(d, t) ==
  setAudioFingerprint(
    setMethodology(
      setArtist(d, [name |-> NameA], t).draft,
      Padded, t).draft,
    [sha256 |-> ShaA, duration_ms |-> 1000 * One, format |-> Wav], t).draft

\* a builder right after construction, or after the three required setters
BuilderInit ==
  /\ now = 0
  /\ \E u \in Uuids : draft \in {NewDraft(u, now), Prepared(NewDraft(u, now), now)}
  /\ built = <<>>
  /\ lastCall = [op |-> "constructor", threw |-> FALSE]
  /\ calls = 0
  /\ VerifyIdle
  /\ PureIdle
  /\ ClientIdle
  /\ CliIdle
  /\ ChainIdle
  /\ TasksIdle

BuilderNext ==
  \/ Tick
  \/ SetArtist \/ AddCollaborator \/ AddContributor
  \/ AddDAW \/ SetDAWs \/ AddPlugin \/ SetPlugins
  \/ AddAIModel \/ AddHardware \/ AddSample
  \/ SetAIContribution \/ SetMethodology \/ SetNotes
  \/ SetIPFSCID \/ AddSourceMaterial \/ AddSampleReference \/ AddStem
  \/ SetAudioFingerprint \/ AddRevision \/ SetDeclarationId
  \/ Build

SpecBuilder == BuilderInit /\ [][BuilderNext]_vars

\* ------------------------------------------------------------------------
\* Verification inputs: what the store holds and what the caller passes
\* ------------------------------------------------------------------------
BaseDeclaration == Prepared(NewDraft(Uuid1, 0), 0)

PayloadIds == {createPendingId(Uuid1), O8_PREFIX \o CidA, O8_PREFIX \o CidB, Garbage}

PayloadArtists ==
  {[name |-> NameA],
   [name |-> NameA, wallet |-> WalletA, signature |-> Sig],
   [name |-> NameA, wallet |-> WalletA],
   [name |-> <<>>]}

PayloadCollaborators ==
  {<<>>,
   <<[name |-> NameB, role |-> NameA, wallet |-> WalletA]>>,
   <<[name |-> NameB, role |-> NameA],
     [name |-> <<"C">>, role |-> NameA, wallet |-> WalletA, signature |-> Sig]>>}

PayloadProvenances ==
  {[source_material |-> <<>>, samples |-> <<>>, stems |-> <<>>],
   [ipfs_cid |-> CidA,
    source_material |-> <<[cid |-> CidB, description |-> NameA, relationship |-> "remix"]>>,
    samples |-> <<>>,
    stems |-> <<[cid |-> CidC, name |-> NameA, type |-> "drums"]>>],
   [source_material |-> <<>>,
    samples |-> <<[cid |-> CidB, name |-> NameA], [cid |-> CidB, name |-> NameB]>>,
    stems |-> <<>>]}

Payloads ==
  {[BaseDeclaration EXCEPT
      !.declaration_id = id,
      !.identity.primary_artist = a,
      !.identity.collaborators = c,
      !.provenance = p] :
     id \in PayloadIds, a \in PayloadArtists,
     c \in PayloadCollaborators, p \in PayloadProvenances}

FetchResponses ==
  {[kind |-> "abort"],
   [kind |-> "http", ok |-> FALSE],
   [kind |-> "http", ok |-> TRUE, parses |-> FALSE]}
    \cup {[kind |-> "http", ok |-> TRUE, parses |-> TRUE, json |-> p] : p \in Payloads}

ExistsResponses ==
  {[kind |-> "abort"], [kind |-> "http", ok |-> FALSE], [kind |-> "http", ok |-> TRUE]}

FileA == <<"a", ".", "w", "a", "v">>

FileB == <<"b", ".", "W", "A", "V">>

FileC == <<"c", ".", "t", "x", "t">>

FileD == <<"d", ".", "w", "a", "v">>

\* the audio files on disk
FileSystem ==
  [path \in {FileA, FileB, FileC, FileD} |->
     CASE path = FileA -> [exists |-> TRUE, sha256 |-> ShaA, parsed |-> TRUE,
                           duration_ms |-> 1000 * One, container |-> <<"W", "A", "V">>]
       [] path = FileB -> [exists |-> TRUE, sha256 |-> ShaB, parsed |-> TRUE,
                           duration_ms |-> 1000 * One, container |-> <<>>]
       [] path = FileC -> [exists |-> TRUE, sha256 |-> ShaA, parsed |-> FALSE,
                           duration_ms |-> 0, container |-> <<>>]
       [] path = FileD -> [exists |-> FALSE, sha256 |-> <<>>, parsed |-> FALSE,
                           duration_ms |-> 0, container |-> <<>>]]

VerifyInputs ==
  {CidA,
   O8_PREFIX \o CidA,
   getGatewayUrl(CidA, DefaultGateway \o <<"/">>),
   createPendingId(Uuid2),
   O8_PREFIX \o Garbage,
   Garbage}

\* VerifyOptions: every subset of the optional properties
OptionSets ==
  {[k \in keys |->
      CASE k = "audioFile" -> f
        [] k = "ipfsClient" -> "injected"
        [] OTHER -> TRUE] :
     keys \in SUBSET {"audioFile", "checkSignatures", "checkProvenance", "ipfsClient"},
     f \in DOMAIN FileSystem}

\* ------------------------------------------------------------------------
\* Verification actions
\* ------------------------------------------------------------------------
\* verifyDeclaration, lines 59-71
Resolve ==
  /\ pc = "idle"
  /\ \E input \in VerifyInputs, options \in OptionSets :
       LET r == extractCID(input)
       IN /\ request' = [cidOrId |-> input, options |-> options]
          /\ IF r.ok
             THEN /\ cid' = r.value
                  /\ pc' = "fetch"
                  /\ result' = result
             ELSE /\ cid' = cid
                  /\ pc' = "done"
                  /\ result' = createFailedResult("Invalid declaration ID or CID",
                                                  toISOString(now))
  /\ UNCHANGED <<now, builderVars, pureVars, clientVars, attempt, sources, validCount, netlog, cliVars, chainVars, taskVars>>

\* ipfs.fetch of the default client: one attempt; the last failed attempt
\* raises IPFSError, which verifyDeclaration turns into a failed result
FetchAttempt ==
  /\ pc = "fetch"
  /\ ~Has(request.options, "ipfsClient")
  /\ attempt < Retries
  /\ \E response \in FetchResponses :
       LET r == fetchAttempt(response)
       IN /\ netlog' = Append(netlog, [method |-> "GET",
                                       url |-> getGatewayUrl(cid, DefaultGateway)])
          /\ IF r.ok
             THEN /\ result' = [declaration |-> r.value]
                  /\ pc' = "schema"
                  /\ attempt' = attempt
             ELSE /\ attempt' = attempt + 1
                  /\ IF attempt + 1 < Retries
                     THEN /\ pc' = pc
                          /\ result' = result
                     ELSE /\ pc' = "done"
                          /\ result' = createFailedResult("Failed to fetch declaration from IPFS",
                                                          toISOString(now))
  /\ UNCHANGED <<now, builderVars, pureVars, clientVars, request, cid, sources, validCount, cliVars, chainVars, taskVars>>

\* ipfs.fetch of a client passed in options.ipfsClient: it returns what it
\* holds for the address, validated or not, or it raises
FetchInjected ==
  /\ pc = "fetch"
  /\ Has(request.options, "ipfsClient")
  /\ \/ \E p \in Payloads :
          /\ result' = [declaration |-> p]
          /\ pc' = "schema"
     \/ /\ result' = createFailedResult("Failed to fetch declaration from IPFS",
                                        toISOString(now))
        /\ pc' = "done"
  /\ UNCHANGED <<now, builderVars, pureVars, clientVars, request, cid, attempt, sources, validCount, netlog, cliVars, chainVars, taskVars>>

\* verifyDeclaration, lines 84-117
SchemaCheck ==
  /\ pc = "schema"
  /\ LET step == schemaStep(result.declaration, cid, toISOString(now))
     IN /\ result' = step.result
        /\ pc' = step.next
  /\ UNCHANGED <<now, builderVars, pureVars, clientVars, request, cid, attempt, sources, validCount, netlog, cliVars, chainVars, taskVars>>

\* verifyDeclaration, lines 119-143
FingerprintCheck ==
  /\ pc = "fingerprint"
  /\ result' = fingerprintStep(result, request.options, FileSystem)
  /\ pc' = "signatures"
  /\ UNCHANGED <<now, builderVars, pureVars, clientVars, request, cid, attempt, sources, validCount, netlog, cliVars, chainVars, taskVars>>

\* verifyDeclaration, lines 145-152
SignatureCheck ==
  /\ pc = "signatures"
  /\ result' = signatureStep(result, request.options)
  /\ pc' = "provenance"
  /\ UNCHANGED <<now, builderVars, pureVars, clientVars, request, cid, attempt, sources, validCount, netlog, cliVars, chainVars, taskVars>>

\* verifyDeclaration, line 155, and verifyProvenance, lines 249-274
ProvenanceStart ==
  /\ pc = "provenance"
  /\ IF ~Requested(request.options, "checkProvenance")
     THEN /\ pc' = "done"
          /\ UNCHANGED <<result, sources>>
     ELSE LET collected == provenanceSources(result.declaration)
          IN /\ sources' = collected
             /\ IF Len(collected) = 0
                THEN /\ result' = provenanceStep(result,
                                     [valid |-> TRUE, sources_checked |-> 0,
                                      sources_valid |-> 0])
                     /\ pc' = "done"
                ELSE /\ result' = result
                     /\ pc' = "probe"
  /\ UNCHANGED <<now, builderVars, pureVars, clientVars, request, cid, attempt, validCount, netlog, cliVars, chainVars, taskVars>>

\* the addresses probed so far
Probed == Len(SelectSeq(netlog, LAMBDA e : e.method = "HEAD"))

\* verifyProvenance, lines 277-289: one ipfs.exists; after the last one the
\* verdict goes into the result.  Nothing here catches: an exists that
\* raised would end the run without a result.
ProbeExists ==
  /\ pc = "probe"
  /\ \E response \in ExistsResponses :
       LET target == sources[Probed + 1]
           r == exists(response)
           found == r.ok /\ r.value
           count == IF found THEN validCount + 1 ELSE validCount
       IN /\ netlog' = Append(netlog, [method |-> "HEAD",
                                       url |-> getGatewayUrl(target, DefaultGateway),
                                       found |-> found])
          /\ validCount' = count
          /\ IF ~r.ok
             THEN /\ pc' = "raised"
                  /\ result' = result
             ELSE IF Probed + 1 < Len(sources)
             THEN /\ pc' = pc
                  /\ result' = result
             ELSE /\ pc' = "done"
                  /\ result' = provenanceStep(result,
                                              provenanceVerdict(Len(sources), count))
  /\ UNCHANGED <<now, builderVars, pureVars, clientVars, request, cid, attempt, sources, cliVars, chainVars, taskVars>>

\* verifyDeclarationObject
VerifyObject ==
  /\ pc = "idle"
  /\ \E p \in Payloads :
       /\ request' = [object |-> p]
       /\ result' = verifyDeclarationObject(p, toISOString(now))
  /\ pc' = "done"
  /\ UNCHANGED <<now, builderVars, pureVars, clientVars, cid, attempt, sources, validCount, netlog, cliVars, chainVars, taskVars>>

Init ==
  /\ now = 0
  /\ draft = NewDraft(Uuid1, now)
  /\ built = <<>>
  /\ lastCall = [op |-> "constructor", threw |-> FALSE]
  /\ calls = 0
  /\ VerifyIdle
  /\ PureIdle
  /\ ClientIdle
  /\ CliIdle
  /\ ChainIdle
  /\ TasksIdle

Next ==
  \/ Resolve
  \/ FetchAttempt
  \/ FetchInjected
  \/ SchemaCheck
  \/ FingerprintCheck
  \/ SignatureCheck
  \/ ProvenanceStart
  \/ ProbeExists
  \/ VerifyObject

Spec == Init /\ [][Next]_vars

\* ------------------------------------------------------------------------
\* Properties of the verification run (Spec)
\* ------------------------------------------------------------------------
\* the run was a verifyDeclaration that got a record from the store
ReachedChecks ==
  /\ pc = "done"
  /\ Has(request, "options")
  /\ DOMAIN result.declaration # {}

Checks == result.checks

\* C1: when schema validation fails, the result is invalid, its checks hold
\* the schema sub-result only, and no existence probe was made, whatever
\* the options asked for; for verifyDeclaration and verifyDeclarationObject.
C1_SchemaFailureShortCircuits ==
  (pc = "done" /\ ~Checks.schema.valid) =>
    /\ result.valid = FALSE
    /\ DOMAIN Checks = {"schema"}
    /\ Probed = 0

\* a fetched record failed the schema while every optional check was asked for
C1_Witness ==
  /\ ReachedChecks
  /\ ~Checks.schema.valid
  /\ Truthy(request.options, "audioFile")
  /\ Requested(request.options, "checkSignatures")
  /\ Requested(request.options, "checkProvenance")
  /\ Len(provenanceSources(result.declaration)) > 0

\* a requested check has a sub-result, and the sub-result is valid
RequestedValid(k, requested) == requested => (Has(Checks, k) /\ Checks[k].valid)

AllRequestedValid ==
  /\ RequestedValid("fingerprint", Truthy(request.options, "audioFile"))
  /\ RequestedValid("signatures", Requested(request.options, "checkSignatures"))
  /\ RequestedValid("provenance", Requested(request.options, "checkProvenance"))

\* C2: a run that reaches the content checks returns valid = TRUE exactly
\* when the schema check is valid and every requested check is valid.
C2_ValidIsConjunction ==
  ReachedChecks => (result.valid <=> (Checks.schema.valid /\ AllRequestedValid))

\* a run with a requested fingerprint check that failed while the requested
\* signature and provenance checks passed
C2_Witness ==
  /\ ReachedChecks
  /\ DOMAIN Checks = {"schema", "fingerprint", "signatures", "provenance"}
  /\ ~Checks.fingerprint.valid
  /\ Checks.signatures.valid
  /\ Checks.provenance.valid
  /\ ~result.valid

\* C3: a fetched record whose published-form ID embeds another address than
\* the one it was fetched by is not reported valid, and a pending-form ID
\* never produces an identity mismatch.
C3_IdentityMismatchInvalidates ==
  (ReachedChecks /\ validateCID(cid)) =>
    LET id == result.declaration.declaration_id
    IN /\ (isPublishedId(id) /\ Slice(id, Len(O8_PREFIX)) # cid) => ~result.valid
       /\ isPendingId(id) =>
            (~Has(Checks.schema, "errors") \/ IdMismatch \notin Range(Checks.schema.errors))

Listed(k) == IF Has(Checks.signatures, k) THEN Range(Checks.signatures[k]) ELSE {}

\* a party is where the signature check has to put it
PartyPlaced(party) ==
  LET inVerified == party.name \in Listed("verified")
      inFailed == (party.name \o MissingSignature) \in Listed("failed")
  IN IF ~Truthy(party, "wallet") THEN ~inVerified /\ ~inFailed
     ELSE IF Truthy(party, "signature") THEN inVerified /\ ~inFailed
     ELSE inFailed /\ ~inVerified

\* C4: with checkSignatures requested, each party with a wallet is verified
\* when it has a signature and a named failure when it has none, a party
\* without a wallet is in neither list, and the sub-result is valid exactly
\* when there is no failure.
C4_SignaturesPerParty ==
  (ReachedChecks /\ Has(Checks, "signatures")) =>
    /\ PartyPlaced(result.declaration.identity.primary_artist)
    /\ \A i \in DOMAIN result.declaration.identity.collaborators :
         PartyPlaced(result.declaration.identity.collaborators[i])
    /\ Checks.signatures.valid <=> (Listed("failed") = {})

\* the number of addresses the provenance section refers to
ReferenceCount(p) ==
  (IF Has(p, "ipfs_cid") THEN 1 ELSE 0)
    + Len(p.source_material) + Len(p.samples) + Len(p.stems)

\* the number of probes the store answered with an OK status
Resolved == Len(SelectSeq(netlog, LAMBDA e : e.method = "HEAD" /\ e.found))

\* C5: with checkProvenance requested, sources_checked is the number of
\* referenced addresses, sources_valid the number the store reported present,
\* valid holds exactly when they are equal, both counts are there either way,
\* and an invalid provenance check makes the overall verdict false.
C5_ProvenanceCounts ==
  (ReachedChecks /\ Checks.schema.valid /\ Requested(request.options, "checkProvenance")) =>
    /\ Has(Checks, "provenance")
    /\ Checks.provenance.sources_checked = ReferenceCount(result.declaration.provenance)
    /\ Checks.provenance.sources_valid = Resolved
    /\ Checks.provenance.valid <=>
         (Checks.provenance.sources_checked = Checks.provenance.sources_valid)
    /\ ~Checks.provenance.valid => ~result.valid

\* three referenced addresses of which two resolve
C5_Witness ==
  /\ ReachedChecks
  /\ Has(Checks, "provenance")
  /\ Checks.provenance = [valid |-> FALSE, sources_checked |-> 3, sources_valid |-> 2]
  /\ ~result.valid

\* C6: a check that was not requested has no sub-result, and cannot make the
\* verdict false: a schema-valid record whose requested checks all pass is
\* valid.
C6_UnrequestedAbsent ==
  ReachedChecks =>
    /\ ~Truthy(request.options, "audioFile") => ~Has(Checks, "fingerprint")
    /\ ~Requested(request.options, "checkSignatures") => ~Has(Checks, "signatures")
    /\ ~Requested(request.options, "checkProvenance") => ~Has(Checks, "provenance")
    /\ (Checks.schema.valid /\ AllRequestedValid) => result.valid

\* nothing was requested, for a record whose signature check would fail and
\* whose provenance refers to addresses
C6_Witness ==
  /\ ReachedChecks
  /\ DOMAIN request.options \subseteq {"ipfsClient"}
  /\ ~verifySignatures(result.declaration).valid
  /\ Len(provenanceSources(result.declaration)) > 0
  /\ DOMAIN Checks = {"schema"}
  /\ result.valid

\* C10: the address extractCID hands on to the store passes validateCID.
C10_ExtractedAddressIsValid ==
  pc = "fetch" => validateCID(cid)

\* the audio file is missing, unsupported, or differs from the declared
\* fingerprint in digest, duration or format
FingerprintFails(path, declared) ==
  LET file == FileSystem[path]
      metadata == extractMetadata(path, file)
  IN \/ ~file.exists
     \/ ~isSupportedFormat(path)
     \/ file.sha256 # declared.sha256
     \/ metadata.duration_ms # declared.duration_ms
     \/ ToLower(metadata.format) # ToLower(declared.format)

\* a party has a wallet and no signature
Unsigned(party) == Truthy(party, "wallet") /\ ~Truthy(party, "signature")

\* the parties the signature check is about
Signers(d, collaboratorsToo) ==
  {d.identity.primary_artist}
    \cup (IF collaboratorsToo THEN Range(d.identity.collaborators) ELSE {})

\* the verification failures of a finished run are in its result
FailuresReported(collaboratorsToo) ==
  /\ pc # "raised"
  /\ (pc = "done" /\ Has(request, "options")) =>
       /\ ~Checks.schema.valid => ~result.valid
       /\ (ReachedChecks /\ Checks.schema.valid) =>
            LET d == result.declaration
                o == request.options
                fingerprintFailed == /\ Truthy(o, "audioFile")
                                     /\ FingerprintFails(o.audioFile, d.audio_fingerprint)
            IN /\ fingerprintFailed =>
                    /\ Has(Checks, "fingerprint")
                    /\ ~Checks.fingerprint.valid
                    /\ ~result.valid
                    /\ Requested(o, "checkSignatures") => Has(Checks, "signatures")
                    /\ Requested(o, "checkProvenance") => Has(Checks, "provenance")
               /\ (Requested(o, "checkSignatures") /\ \E party \in Signers(d, collaboratorsToo) : Unsigned(party)) =>
                    /\ Has(Checks, "signatures")
                    /\ ~Checks.signatures.valid
                    /\ ~result.valid
               /\ (Requested(o, "checkProvenance") /\ Resolved < Probed) =>
                    /\ Has(Checks, "provenance")
                    /\ ~Checks.provenance.valid
                    /\ ~result.valid

\* C19: verifyDeclaration never raises for a verification failure: a
\* schema-invalid record, a fingerprint mismatch, an audio file that cannot
\* be fingerprinted, a missing signature (primary artist or collaborator)
\* and an unresolved provenance address are each in the returned result
\* with valid = FALSE, and after a failed fingerprint check the requested
\* signature and provenance checks are in the report too.
C19_FailuresAreResults ==
  FailuresReported(TRUE)

\* the same with the primary artist as the only party that has to sign
C19_FailuresAreResultsPrimaryOnly ==
  FailuresReported(FALSE)

\* the input is a content address, a published ID or a gateway URL of one;
\* read loosely: extractCID returned something
Resolvable(reference, strict) ==
  /\ extractCID(reference).ok
  /\ strict => validateCID(extractCID(reference).value)

\* the run got no record from the store
FetchFailed ==
  /\ pc = "done"
  /\ Has(request, "options")
  /\ cid # <<>>
  /\ IF Has(request.options, "ipfsClient") THEN DOMAIN result.declaration = {}
     ELSE attempt = Retries

\* the outcome of a run that ended before any content check
EndedEarly(message) ==
  /\ pc = "done"
  /\ result.valid = FALSE
  /\ result.declaration = <<>>
  /\ Checks = [schema |-> [valid |-> FALSE, errors |-> <<message>>]]
  /\ Probed = 0

\* a run that stops when the reference does or does not resolve
NoContentCheck(strict) ==
  /\ (Has(request, "options") /\ ~Resolvable(request.cidOrId, strict)) =>
       /\ cid = <<>>
       /\ netlog = <<>>
       /\ EndedEarly("Invalid declaration ID or CID")
  /\ FetchFailed => EndedEarly("Failed to fetch declaration from IPFS")

\* C20: a run whose input does not resolve to a content address sends no
\* request to the store, a run whose fetch fails runs no content check and
\* no probe, and both end with a result that is not valid.
C20_EarlyFailuresAreTerminal == NoContentCheck(TRUE)

\* the same with "resolves" read as "extractCID returned"
C20_EarlyFailuresAreTerminalAsExtracted ==
  NoContentCheck(FALSE)

\* the existence probes made so far
Heads == SelectSeq(netlog, LAMBDA e : e.method = "HEAD")

\* the k-th address a record references: the root first, then the source
\* materials, the sample references and the stems
Reference(d, k) ==
  LET p == d.provenance
      roots == IF Truthy(p, "ipfs_cid") THEN 1 ELSE 0
      materials == roots + Len(p.source_material)
      samples == materials + Len(p.samples)
  IN IF k <= roots THEN p.ipfs_cid
     ELSE IF k <= materials THEN p.source_material[k - roots].cid
     ELSE IF k <= samples THEN p.samples[k - materials].cid
     ELSE p.stems[k - samples].cid

References(d) ==
  (IF Truthy(d.provenance, "ipfs_cid") THEN 1 ELSE 0)
    + Len(d.provenance.source_material) + Len(d.provenance.samples) + Len(d.provenance.stems)

\* C30: the k-th existence probe of a run is for the k-th reference of the
\* record, in the order root, source materials, sample references, stems;
\* a run whose report holds a provenance check has made as many probes as
\* there are references, a repeated address probed once per reference, and
\* reports that number as sources_checked; with no reference it has made no
\* probe and reports valid = true with both counts 0.
C30_ProbesFollowReferences ==
  /\ Heads # <<>> =>
       /\ Len(Heads) <= References(result.declaration)
       /\ \A k \in DOMAIN Heads :
            Heads[k].url = getGatewayUrl(Reference(result.declaration, k), DefaultGateway)
  /\ pc = "probe" => Len(Heads) < References(result.declaration)
  /\ (ReachedChecks /\ Has(Checks, "provenance")) =>
       /\ Len(Heads) = References(result.declaration)
       /\ Checks.provenance.sources_checked = Len(Heads)
       /\ Len(Heads) = 0 =>
            Checks.provenance = [valid |-> TRUE, sources_checked |-> 0, sources_valid |-> 0]

\* two sample references to one address, probed twice, found once
C30_Witness ==
  /\ ReachedChecks
  /\ Has(Checks, "provenance")
  /\ Len(result.declaration.provenance.samples) = 2
  /\ Len(Heads) = 2
  /\ Heads[1].url = Heads[2].url
  /\ Checks.provenance = [valid |-> FALSE, sources_checked |-> 2, sources_valid |-> 1]

\* ------------------------------------------------------------------------
\* Properties of the builder (SpecBuilder)
\* ------------------------------------------------------------------------
\* C7: whatever build() returns re-validates as schema-valid.
C7_BuiltRevalidates ==
  Len(built) = 1 => validateDeclaration(built[1]).valid

\* build() returned a record after setDeclarationId replaced the pending ID
C7_Witness ==
  /\ lastCall = [op |-> "build", threw |-> FALSE]
  /\ Len(built) = 1
  /\ ~isPendingId(built[1].declaration_id)

\* C8: a setter or adder call that throws leaves the draft as it was.
C8_FailedCallLeavesDraft ==
  [][(calls' = calls + 1 /\ lastCall'.threw /\ lastCall'.op # "build") => draft' = draft]_vars

\* an adder threw on a draft that already holds fields
C8_Witness ==
  /\ lastCall = [op |-> "addCollaborator", threw |-> TRUE]
  /\ draft.identity.primary_artist.name # <<>>

\* C9: a declaration that validateDeclaration accepts has a declaration_id of
\* pending form or of published form with a valid address.
C9_AcceptedIdHasKnownForm ==
  Len(built) = 1 =>
    (isPendingId(built[1].declaration_id) \/ isPublishedId(built[1].declaration_id))

\* the place of a character among the digits, 0 for any other
Rank(ch) ==
  IF \E i \in DOMAIN DigitSeq : DigitSeq[i] = ch
  THEN CHOOSE i \in DOMAIN DigitSeq : DigitSeq[i] = ch
  ELSE 0

\* a <= b for two timestamps as toISOString writes them
RECURSIVE NotLater(_, _)
NotLater(a, b) ==
  IF a = <<>> THEN TRUE
  ELSE IF b = <<>> THEN FALSE
  ELSE IF Head(a) = Head(b) THEN NotLater(Tail(a), Tail(b))
  ELSE Rank(Head(a)) < Rank(Head(b))

MaxChain == 2

LocalGateway == <<"h", "t", "t", "p", ":", "/", "/", "h", ":", "8", "0", "/">>

\* a gateway given with its /ipfs path
PathGateway == DefaultGateway \o <<"/", "i", "p", "f", "s", "/">>

IdStrings ==
  {CidA, CidC, CidShort, Garbage, <<>>,
   createPendingId(Uuid1), O8_PREFIX \o Garbage, O8_PENDING_PREFIX \o CidA}

Gateways ==
  {DefaultGateway, DefaultGateway \o <<"/">>, LocalGateway, PathGateway,
   <<"o", "8", "-", "g", "w">>}

\* the strings a finished call hands to the next one
Handed(call) ==
  IF ~call.ret.ok THEN {}
  ELSE IF call.fn \in {"generateDeclarationId", "createPendingId",
                       "getGatewayUrl", "extractCID"}
  THEN {call.ret.value}
  ELSE IF call.fn = "parseDeclarationId" THEN {call.ret.value.cid}
  ELSE {}

Candidates ==
  {args.a} \cup (IF calllog = <<>> THEN {} ELSE Handed(calllog[Len(calllog)]))

Called(fn, arg, ret) ==
  /\ Len(calllog) < MaxChain
  /\ calllog' = Append(calllog, [fn |-> fn, arg |-> arg, gateway |-> args.g, ret |-> ret])
  /\ UNCHANGED <<now, builderVars, verifyVars, clientVars, args, cliVars, chainVars, taskVars>>

GenerateDeclarationId ==
  \E a \in Candidates : Called("generateDeclarationId", a, generateDeclarationId(a))

ParseDeclarationId ==
  \E a \in Candidates : Called("parseDeclarationId", a, parseDeclarationId(a))

\* randomUUID() is any identifier
CreatePendingId ==
  \E u \in Uuids : Called("createPendingId", u, Ok(createPendingId(u)))

IsPendingId ==
  \E a \in Candidates : Called("isPendingId", a, Ok(isPendingId(a)))

IsPublishedId ==
  \E a \in Candidates : Called("isPublishedId", a, Ok(isPublishedId(a)))

GetGatewayUrl ==
  \E a \in Candidates : Called("getGatewayUrl", a, Ok(getGatewayUrl(a, args.g)))

ExtractCID ==
  \E a \in Candidates : Called("extractCID", a, extractCID(a))

IdInit ==
  /\ now = 0
  /\ draft = NewDraft(Uuid1, now)
  /\ built = <<>>
  /\ lastCall = [op |-> "constructor", threw |-> FALSE]
  /\ calls = 0
  /\ VerifyIdle
  /\ ClientIdle
  /\ CliIdle
  /\ ChainIdle
  /\ TasksIdle
  /\ args \in {[a |-> a, g |-> g] : a \in IdStrings, g \in Gateways}
  /\ calllog = <<>>

IdNext ==
  \/ GenerateDeclarationId
  \/ ParseDeclarationId
  \/ CreatePendingId
  \/ IsPendingId
  \/ IsPublishedId
  \/ GetGatewayUrl
  \/ ExtractCID

SpecId == IdInit /\ [][IdNext]_vars

\* ------------------------------------------------------------------------
\* Properties of the identifier helpers (SpecId)
\* ------------------------------------------------------------------------
\* call i took what call i - 1 (a call of fn) returned
Follows(i, fn) ==
  /\ i > 1
  /\ calllog[i - 1].fn = fn
  /\ calllog[i - 1].ret.ok
  /\ calllog[i].arg = calllog[i - 1].ret.value

\* extractCID gives back the address a in each of the three forms
ExtractsFrom(i, gatewayOk) ==
  calllog[i].fn = "extractCID" =>
    /\ validateCID(calllog[i].arg) => calllog[i].ret = Ok(calllog[i].arg)
    /\ (Follows(i, "generateDeclarationId") /\ validateCID(calllog[i - 1].arg))
         => calllog[i].ret = Ok(calllog[i - 1].arg)
    /\ (/\ Follows(i, "getGatewayUrl")
        /\ validateCID(calllog[i - 1].arg)
        /\ gatewayOk)
         => calllog[i].ret = Ok(calllog[i - 1].arg)

PlainGateway(g) ==
  LET baseUrl == IF g # <<>> /\ g[Len(g)] = "/" THEN SubSeq(g, 1, Len(g) - 1) ELSE g
      seg == <<"/", "i", "p", "f", "s">>
      at(i) == i + Len(seg) - 1 <= Len(baseUrl) /\ SubSeq(baseUrl, i, i + Len(seg) - 1) = seg
  IN /\ ~StartsWith(g, O8_PREFIX)
     /\ \A i \in 1..Len(baseUrl) :
          at(i) => /\ i + Len(seg) - 1 < Len(baseUrl)
                   /\ baseUrl[i + Len(seg)] # "/"

C12_GenerateParseRoundTrip ==
  \A i \in DOMAIN calllog :
    /\ calllog[i].fn = "generateDeclarationId" =>
         IF validateCID(calllog[i].arg)
         THEN calllog[i].ret.ok
         ELSE calllog[i].ret = Throw("DeclarationIdError")
    /\ (calllog[i].fn = "parseDeclarationId" /\ Follows(i, "generateDeclarationId")) =>
         calllog[i].ret = Ok([prefix |-> O8_PREFIX,
                              cid |-> calllog[i - 1].arg,
                              isPending |-> FALSE])

C12_Witness ==
  /\ Len(calllog) = 2
  /\ calllog[2].fn = "parseDeclarationId"
  /\ Follows(2, "generateDeclarationId")
  /\ calllog[1].arg = CidC
  /\ calllog[2].ret.value.cid = CidC

\* C13: an ID from createPendingId is pending and not published, an ID from
\* generateDeclarationId(a), a valid, is published and not pending, and no
\* string is both.
C13_PendingXorPublished ==
  \A i \in DOMAIN calllog :
    /\ (calllog[i].fn = "isPendingId" /\ Follows(i, "createPendingId")) =>
         calllog[i].ret.value = TRUE
    /\ (calllog[i].fn = "isPublishedId" /\ Follows(i, "createPendingId")) =>
         calllog[i].ret.value = FALSE
    /\ (calllog[i].fn = "isPendingId" /\ Follows(i, "generateDeclarationId")) =>
         calllog[i].ret.value = FALSE
    /\ (calllog[i].fn = "isPublishedId" /\ Follows(i, "generateDeclarationId")) =>
         calllog[i].ret.value = TRUE
    /\ \A j \in DOMAIN calllog :
         (/\ calllog[i].fn = "isPendingId"
          /\ calllog[j].fn = "isPublishedId"
          /\ calllog[i].arg = calllog[j].arg) =>
           ~(calllog[i].ret.value /\ calllog[j].ret.value)

C13_Witness ==
  /\ Len(calllog) = 2
  /\ Follows(2, "createPendingId")
  /\ calllog[2].fn = "isPendingId"
  /\ calllog[2].ret.value = TRUE
  /\ ~isPublishedId(calllog[2].arg)

\* ------------------------------------------------------------------------
\* IPFSClient: publish, fetch, exists and pin called on their own
\* (SpecClient).  A request is logged as [method, url, error, delay]: error
\* is what the attempt threw ("none" when it returned), delay the sleep
\* that follows it.  returned keeps, for exists and pin, the store's answer
\* (status) and, for pin, the PublishResult the caller held at the call.
\* ------------------------------------------------------------------------
InvalidDeclaration == [BaseDeclaration EXCEPT !.identity.primary_artist = [name |-> <<>>]]

\* a valid record with a property the schema does not know
ExtraDeclaration == With(BaseDeclaration, "extra", TRUE)

ClientDeclarations == {BaseDeclaration, InvalidDeclaration}

ClientCids == {CidA, Garbage}

Rejections == {[kind |-> "abort", why |-> "timeout"], [kind |-> "abort", why |-> "network"]}

StatusResponses == {[kind |-> "http", ok |-> FALSE], [kind |-> "http", ok |-> TRUE]}

PublishResponses ==
  Rejections
    \cup {[kind |-> "http", ok |-> FALSE],
          [kind |-> "http", ok |-> TRUE, parses |-> FALSE],
          [kind |-> "http", ok |-> TRUE, parses |-> TRUE, json |-> [Hash |-> CidA]],
          [kind |-> "http", ok |-> TRUE, parses |-> TRUE, json |-> [Hash |-> Garbage]],
          [kind |-> "http", ok |-> TRUE, parses |-> TRUE, json |-> [Message |-> Garbage]]}

ClientFetchResponses ==
  Rejections
    \cup {[kind |-> "http", ok |-> FALSE],
          [kind |-> "http", ok |-> TRUE, parses |-> FALSE]}
    \cup {[kind |-> "http", ok |-> TRUE, parses |-> TRUE, json |-> p] :
            p \in {BaseDeclaration, InvalidDeclaration, ExtraDeclaration}}

PinAnswers == {<<a, b>> : a \in Rejections \cup StatusResponses, b \in StatusResponses}

\* the request of one attempt
Sent(method, url, r, delay) ==
  [method |-> method, url |-> url,
   error |-> IF r.ok THEN "none" ELSE r.error, delay |-> delay]

\* a publish that enters its loop without validating
PublishCallUnvalidated ==
  /\ ipfs = <<>>
  /\ \E declaration \in ClientDeclarations :
       /\ ipfs' = [op |-> "publish", arg |-> declaration, attempt |-> 0,
                   lastError |-> <<>>, sent |-> <<>>]
       /\ returned' = returned
  /\ UNCHANGED <<now, builderVars, verifyVars, pureVars, published, cliVars, chainVars, taskVars>>

\* publish, lines 88-102: validation, then the loop starts
PublishCall ==
  /\ ipfs = <<>>
  /\ \E declaration \in ClientDeclarations :
       IF ~validateDeclaration(declaration).valid
       THEN /\ returned' = [op |-> "publish", arg |-> declaration, sent |-> <<>>,
                            outcome |-> Throw("IPFSError")]
            /\ ipfs' = ipfs
       ELSE /\ ipfs' = [op |-> "publish", arg |-> declaration, attempt |-> 0,
                        lastError |-> <<>>, sent |-> <<>>]
            /\ returned' = returned
  /\ UNCHANGED <<now, builderVars, verifyVars, pureVars, published, cliVars, chainVars, taskVars>>

\* one attempt of the call in progress and what the loop does with it
Attempt(op, method, url, r) ==
  /\ ipfs # <<>>
  /\ ipfs.op = op
  /\ LET step == retryStep(ipfs.attempt, r)
         sent == Append(ipfs.sent, Sent(method, url, r, step.delay))
     IN IF step.done
        THEN /\ returned' = [op |-> op, arg |-> ipfs.arg, sent |-> sent,
                             outcome |-> step.outcome]
             /\ ipfs' = <<>>
             /\ published' = IF op = "publish" /\ step.outcome.ok
                             THEN step.outcome.value ELSE published
        ELSE /\ ipfs' = [ipfs EXCEPT !.attempt = @ + 1,
                                     !.lastError = step.lastError,
                                     !.sent = sent]
             /\ UNCHANGED <<returned, published>>
  /\ UNCHANGED <<now, builderVars, verifyVars, pureVars, cliVars, chainVars, taskVars>>

PublishAttempt ==
  \E response \in PublishResponses :
    Attempt("publish", "POST", <<"/api/v0/add">>, publishAttempt(response, DefaultGateway))

FetchCall ==
  /\ ipfs = <<>>
  /\ \E c \in ClientCids :
       ipfs' = [op |-> "fetch", arg |-> c, attempt |-> 0, lastError |-> <<>>, sent |-> <<>>]
  /\ UNCHANGED <<now, builderVars, verifyVars, pureVars, returned, published, cliVars, chainVars, taskVars>>

FetchLoop ==
  /\ ipfs # <<>>
  /\ ipfs.op = "fetch"
  /\ \E response \in ClientFetchResponses :
       Attempt("fetch", "GET", getGatewayUrl(ipfs.arg, DefaultGateway), fetchAttempt(response))

ExistsCall ==
  /\ ipfs = <<>>
  /\ \E c \in ClientCids, response \in Rejections \cup StatusResponses :
       returned' = [op |-> "exists", arg |-> c,
                    sent |-> <<[method |-> "HEAD",
                                url |-> getGatewayUrl(c, DefaultGateway),
                                error |-> IF response.kind = "abort"
                                          THEN RejectionOf(response) ELSE "none",
                                delay |-> 0]>>,
                    status |-> response,
                    outcome |-> exists(response)]
  /\ UNCHANGED <<now, builderVars, verifyVars, pureVars, ipfs, published, cliVars, chainVars, taskVars>>

PinCall ==
  /\ ipfs = <<>>
  /\ \E c \in ClientCids \cup (IF published = <<>> THEN {} ELSE {published.cid}),
        answers \in PinAnswers :
       LET r == pin(c, answers)
       IN returned' = [op |-> "pin", arg |-> c, sent |-> r.sent,
                       status |-> answers[1], outcome |-> r.outcome,
                       held |-> published]
  /\ UNCHANGED <<now, builderVars, verifyVars, pureVars, ipfs, published, cliVars, chainVars, taskVars>>

ClientInit ==
  /\ now = 0
  /\ draft = NewDraft(Uuid1, now)
  /\ built = <<>>
  /\ lastCall = [op |-> "constructor", threw |-> FALSE]
  /\ calls = 0
  /\ VerifyIdle
  /\ PureIdle
  /\ ClientIdle
  /\ CliIdle
  /\ ChainIdle
  /\ TasksIdle

ClientNext ==
  \/ PublishCall
  \/ PublishAttempt
  \/ FetchCall
  \/ FetchLoop
  \/ ExistsCall
  \/ PinCall

SpecClient == ClientInit /\ [][ClientNext]_vars

\* ------------------------------------------------------------------------
\* Properties of the IPFSClient (SpecClient)
\* ------------------------------------------------------------------------
Failed(sent, i) == sent[i].error # "none"

\* C14: one publish call makes at most Retries attempts, returns at its
\* first successful attempt, and after Retries failed attempts (a timeout
\* being one of them) raises an IPFSError whose cause is the error of the
\* last attempt.
C14_PublishRetryBudget ==
  /\ (ipfs # <<>> /\ ipfs.op = "publish") =>
       /\ Len(ipfs.sent) = ipfs.attempt
       /\ ipfs.attempt < Retries
       /\ \A i \in DOMAIN ipfs.sent : Failed(ipfs.sent, i)
  /\ (returned # <<>> /\ returned.op = "publish") =>
       LET n == Len(returned.sent)
       IN /\ n <= Retries
          /\ \A i \in 1..(n - 1) : Failed(returned.sent, i)
          /\ IF returned.outcome.ok
             THEN n >= 1 /\ ~Failed(returned.sent, n)
             ELSE /\ returned.outcome.error = "IPFSError"
                  /\ n = 0 \/ /\ n = Retries
                              /\ Failed(returned.sent, n)
                              /\ returned.outcome.cause = returned.sent[n].error

C14_Witness ==
  /\ returned # <<>>
  /\ returned.op = "publish"
  /\ Len(returned.sent) = Retries
  /\ returned.sent[1].error = "TimeoutError"
  /\ returned.sent[2].error = "Error"
  /\ returned.outcome = Raise("IPFSError", "DeclarationIdError")

\* the payloads of ClientFetchResponses that parse and pass the schema
GoodPayloads ==
  {r.json : r \in {x \in ClientFetchResponses :
                     /\ x.kind = "http" /\ x.ok /\ x.parses
                     /\ validateDeclaration(x.json).valid}}

\* C15: a fetch that returns, returns a declaration that passes
\* validateDeclaration, the parsed form of a payload it received; it returns
\* only at an attempt whose payload parsed and validated, and otherwise it
\* raises IPFSError.
C15_FetchReturnsValidated ==
  (returned # <<>> /\ returned.op = "fetch") =>
    LET n == Len(returned.sent)
    IN IF returned.outcome.ok
       THEN /\ validateDeclaration(returned.outcome.value).valid
            /\ \E p \in GoodPayloads : returned.outcome.value = ParsedDeclaration(p)
            /\ ~Failed(returned.sent, n)
       ELSE /\ returned.outcome.error = "IPFSError"
            /\ Failed(returned.sent, n)

\* a fetch that got an unparseable payload, then a schema-invalid one, then
\* a valid one with an unknown property, and returned the last without it
C15_Witness ==
  /\ returned # <<>>
  /\ returned.op = "fetch"
  /\ Len(returned.sent) = Retries
  /\ returned.sent[1].error = "SyntaxError"
  /\ returned.sent[2].error = "IPFSError"
  /\ returned.outcome.ok
  /\ returned.outcome.value = BaseDeclaration

\* C16: exists returns a boolean for every address and every behaviour of
\* the store (OK status, other status, network error, timeout), and false
\* whenever the probe did not get an OK status.
C16_ExistsNeverRaises ==
  (returned # <<>> /\ returned.op = "exists") =>
    /\ returned.outcome.ok
    /\ returned.outcome.value \in BOOLEAN
    /\ returned.outcome.value <=> (returned.status.kind = "http" /\ returned.status.ok)
    /\ Len(returned.sent) = 1

C16_Witness ==
  /\ returned # <<>>
  /\ returned.op = "exists"
  /\ returned.arg = Garbage
  /\ returned.status = [kind |-> "abort", why |-> "timeout"]
  /\ returned.outcome = Ok(FALSE)

\* C17: a pin call sends exactly one request, raises when that request did
\* not get an OK status, and leaves the result of an earlier publish (held
\* is what the caller had when pin was called) as it was.
C17_PinOnceNoRetry ==
  (returned # <<>> /\ returned.op = "pin") =>
    /\ Len(returned.sent) = 1
    /\ returned.outcome.ok <=> (returned.status.kind = "http" /\ returned.status.ok)
    /\ published = returned.held

C17_Witness ==
  /\ published # <<>>
  /\ returned # <<>>
  /\ returned.op = "pin"
  /\ returned.arg = published.cid
  /\ returned.status = [kind |-> "http", ok |-> FALSE]
  /\ returned.outcome = Throw("IPFSError")

\* C26: a fetch attempt whose payload arrived and failed schema validation
\* ends the call: no further attempt follows it.
C26_InvalidPayloadIsTerminal ==
  /\ (ipfs # <<>> /\ ipfs.op = "fetch") =>
       \A i \in DOMAIN ipfs.sent : ipfs.sent[i].error # "IPFSError"
  /\ (returned # <<>> /\ returned.op = "fetch") =>
       \A i \in 1..(Len(returned.sent) - 1) : returned.sent[i].error # "IPFSError"

\* C29: publish of a declaration that fails validateDeclaration raises
\* IPFSError without a cause, having sent no request and slept no delay;
\* its retry loop only ever runs for a declaration that validates.
C29_InvalidPublishSendsNothing ==
  /\ (ipfs # <<>> /\ ipfs.op = "publish") => validateDeclaration(ipfs.arg).valid
  /\ (returned # <<>> /\ returned.op = "publish"
        /\ ~validateDeclaration(returned.arg).valid) =>
       /\ returned.sent = <<>>
       /\ returned.outcome = Throw("IPFSError")

C29_Witness ==
  /\ returned # <<>>
  /\ returned.op = "publish"
  /\ returned.arg = InvalidDeclaration
  /\ returned.sent = <<>>
  /\ returned.outcome = Throw("IPFSError")
  /\ ipfs = <<>>

\* ------------------------------------------------------------------------
\* fingerprint.ts applied to drawn arguments (SpecFingerprint)
\* ------------------------------------------------------------------------
ShaUpper == Rep(Sha256Len, "A")

DeclaredFingerprints ==
  {[sha256 |-> h, duration_ms |-> d, format |-> f] :
     h \in {ShaA, ShaB, ShaUpper},
     d \in {1000 * One, 2000 * One, 0},
     f \in {Wav, <<"W", "A", "V">>, <<"W", "a", "v">>, <<"m", "p", "3">>}}

FingerprintAudio ==
  /\ calllog = <<>>
  /\ calllog' = <<[fn |-> "fingerprintAudio", arg |-> args,
                   ret |-> fingerprintAudio(args.path, FileSystem[args.path])]>>
  /\ UNCHANGED <<now, builderVars, verifyVars, clientVars, args, cliVars, chainVars, taskVars>>

VerifyFingerprint ==
  /\ calllog = <<>>
  /\ calllog' = <<[fn |-> "verifyFingerprint", arg |-> args,
                   ret |-> verifyFingerprint(args.path, FileSystem[args.path],
                                             args.declared)]>>
  /\ UNCHANGED <<now, builderVars, verifyVars, clientVars, args, cliVars, chainVars, taskVars>>

FingerprintInit ==
  /\ now = 0
  /\ draft = NewDraft(Uuid1, now)
  /\ built = <<>>
  /\ lastCall = [op |-> "constructor", threw |-> FALSE]
  /\ calls = 0
  /\ VerifyIdle
  /\ ClientIdle
  /\ CliIdle
  /\ ChainIdle
  /\ TasksIdle
  /\ args \in {[path |-> p, declared |-> d] :
                 p \in DOMAIN FileSystem, d \in DeclaredFingerprints}
  /\ calllog = <<>>

FingerprintNext ==
  \/ FingerprintAudio
  \/ VerifyFingerprint

SpecFingerprint == FingerprintInit /\ [][FingerprintNext]_vars

\* ------------------------------------------------------------------------
\* Properties of verifyFingerprint (SpecFingerprint)
\* ------------------------------------------------------------------------
\* the verifyFingerprint call that returned
Verified == calllog # <<>> /\ calllog[1].fn = "verifyFingerprint" /\ calllog[1].ret.ok

\* C18: verifyFingerprint returns valid = TRUE exactly when the recomputed
\* hash and duration equal the declared ones and the formats are equal
\* ignoring case; when it is not valid, the mismatch flags are TRUE for
\* exactly the fields that differ.
C18_FingerprintVerdict ==
  Verified =>
    LET v == calllog[1].ret.value
        file == FileSystem[args.path]
        hashSame == file.sha256 = args.declared.sha256
        durationSame == v.computed.duration_ms = args.declared.duration_ms
        formatSame == ToLower(v.computed.format) = ToLower(args.declared.format)
    IN /\ v.computed.sha256 = file.sha256
       /\ v.declared = args.declared
       /\ v.valid <=> (hashSame /\ durationSame /\ formatSame)
       /\ IF v.valid THEN ~Has(v, "mismatch")
          ELSE v.mismatch = [hash |-> ~hashSame, duration |-> ~durationSame,
                             format |-> ~formatSame]

\* the declared digest differs from the file's, duration and format agree
C18_Witness ==
  /\ Verified
  /\ args.path = FileB
  /\ args.declared = [sha256 |-> ShaA, duration_ms |-> 1000 * One, format |-> Wav]
  /\ calllog[1].ret.value.valid = FALSE
  /\ calllog[1].ret.value.mismatch = [hash |-> TRUE, duration |-> FALSE, format |-> FALSE]

\* ------------------------------------------------------------------------
\* The publish command of the CLI against a content-addressed store, and
\* the verify command on what publish returned (SpecPublish).  The store
\* hands out one address per distinct content, in the order of StoreCids.
\* ------------------------------------------------------------------------
MaxStored == 2

StoreCids == <<CidA, CidB, CidC>>

\* the slot at which the store holds content, 0 when it does not
Slot(held, content) ==
  IF \E i \in DOMAIN held : held[i] = content
  THEN CHOOSE i \in DOMAIN held : held[i] = content
  ELSE 0

\* the slot of an address, 0 when the store has nothing there
SlotOf(held, address) ==
  IF \E i \in DOMAIN held : StoreCids[i] = address
  THEN CHOOSE i \in DOMAIN held : StoreCids[i] = address
  ELSE 0

\* the store's /api/v0/add: the store afterwards and the address it answers
add(held, content) ==
  IF Slot(held, content) # 0
  THEN [store |-> held, Hash |-> StoreCids[Slot(held, content)]]
  ELSE [store |-> Append(held, content), Hash |-> StoreCids[Len(held) + 1]]

\* a publish command that writes the bare address into the file
fileAfterPublishBare(onDisk, declaration, outcome) ==
  IF outcome.ok
  THEN [declaration EXCEPT !.declaration_id = outcome.value.cid]
  ELSE onDisk

\* the publish command, lines 150-171: what the file holds once
\* ipfs.publish(declaration) has returned or raised
fileAfterPublish(onDisk, declaration, outcome) ==
  IF outcome.ok
  THEN [declaration EXCEPT !.declaration_id = outcome.value.declarationId]
  ELSE onDisk

\* the publish command, lines 125-148, and publish, lines 88-102
PublishCommand ==
  /\ pc = "idle"
  /\ ipfs = <<>>
  /\ Len(store) < MaxStored
  /\ IF ~validateDeclaration(declFile).valid
     THEN ipfs' = ipfs
     ELSE ipfs' = [op |-> "publish", arg |-> declFile, attempt |-> 0,
                   lastError |-> <<>>, sent |-> <<>>]
  /\ UNCHANGED <<now, builderVars, verifyVars, pureVars, returned, published,
                 cliVars, chainVars, taskVars>>

\* how the store may answer a request
StoreAnswers == Rejections \cup StatusResponses

\* one attempt of publish against the store; when the call ends, the
\* publish command rewrites the file or leaves it
PublishToStore ==
  /\ ipfs # <<>>
  /\ ipfs.op = "publish"
  /\ \E answer \in StoreAnswers :
       LET accepted == answer.kind = "http" /\ answer.ok
           added == add(store, ipfs.arg)
           response == IF accepted
                       THEN [kind |-> "http", ok |-> TRUE, parses |-> TRUE,
                             json |-> [Hash |-> added.Hash]]
                       ELSE answer
           r == publishAttempt(response, DefaultGateway)
           step == retryStep(ipfs.attempt, r)
           sent == Append(ipfs.sent, Sent("POST", <<"/api/v0/add">>, r, step.delay))
       IN /\ store' = IF accepted THEN added.store ELSE store
          /\ IF step.done
             THEN /\ returned' = [op |-> "publish", arg |-> ipfs.arg, sent |-> sent,
                                  outcome |-> step.outcome]
                  /\ ipfs' = <<>>
                  /\ published' = IF step.outcome.ok THEN step.outcome.value ELSE published
                  /\ declFile' = fileAfterPublish(declFile, ipfs.arg, step.outcome)
             ELSE /\ ipfs' = [ipfs EXCEPT !.attempt = @ + 1,
                                          !.lastError = step.lastError,
                                          !.sent = sent]
                  /\ UNCHANGED <<returned, published, declFile>>
  /\ UNCHANGED <<now, builderVars, verifyVars, pureVars, chainVars, taskVars>>

\* the options the verify command passes: --provenance, --signatures
CommandOptions ==
  {[k \in keys |-> TRUE] : keys \in SUBSET {"checkSignatures", "checkProvenance"}}

\* the verify command on the address or the ID publish returned, and
\* verifyDeclaration, lines 59-71
VerifyPublished ==
  /\ pc = "idle"
  /\ ipfs = <<>>
  /\ published # <<>>
  /\ \E reference \in {published.cid, published.declarationId}, options \in CommandOptions :
       LET r == extractCID(reference)
       IN /\ request' = [cidOrId |-> reference, options |-> options]
          /\ IF r.ok
             THEN /\ cid' = r.value
                  /\ pc' = "fetch"
                  /\ result' = result
             ELSE /\ cid' = cid
                  /\ pc' = "done"
                  /\ result' = createFailedResult("Invalid declaration ID or CID",
                                                  toISOString(now))
  /\ UNCHANGED <<now, builderVars, pureVars, clientVars, attempt, sources, validCount,
                 netlog, cliVars, chainVars, taskVars>>

\* what the gateway answers for an address
served(held, address, answer) ==
  IF answer.kind = "abort" THEN [kind |-> "abort"]
  ELSE IF ~answer.ok \/ SlotOf(held, address) = 0 THEN [kind |-> "http", ok |-> FALSE]
  ELSE [kind |-> "http", ok |-> TRUE, parses |-> TRUE,
        json |-> held[SlotOf(held, address)]]

\* ipfs.fetch, one attempt, answered from the store
FetchStored ==
  /\ pc = "fetch"
  /\ attempt < Retries
  /\ \E answer \in StoreAnswers :
       LET r == fetchAttempt(served(store, cid, answer))
       IN /\ netlog' = Append(netlog, [method |-> "GET",
                                       url |-> getGatewayUrl(cid, DefaultGateway)])
          /\ IF r.ok
             THEN /\ result' = [declaration |-> r.value]
                  /\ pc' = "schema"
                  /\ attempt' = attempt
             ELSE /\ attempt' = attempt + 1
                  /\ IF attempt + 1 < Retries
                     THEN /\ pc' = pc
                          /\ result' = result
                     ELSE /\ pc' = "done"
                          /\ result' = createFailedResult("Failed to fetch declaration from IPFS",
                                                          toISOString(now))
  /\ UNCHANGED <<now, builderVars, pureVars, clientVars, request, cid, sources, validCount,
                 cliVars, chainVars, taskVars>>

\* the declarations build() returns for a draft with its required fields
BuiltDeclarations ==
  {build(Prepared(NewDraft(u, 0), 0), 0).value[1] : u \in Uuids}

PublishInit ==
  /\ now = 0
  /\ draft = NewDraft(Uuid1, now)
  /\ built = <<>>
  /\ lastCall = [op |-> "constructor", threw |-> FALSE]
  /\ calls = 0
  /\ VerifyIdle
  /\ PureIdle
  /\ ClientIdle
  /\ declFile \in BuiltDeclarations
  /\ store = <<>>
  /\ ChainIdle
  /\ TasksIdle

PublishNext ==
  \/ PublishCommand
  \/ PublishToStore
  \/ VerifyPublished
  \/ FetchStored
  \/ SchemaCheck
  \/ FingerprintCheck
  \/ SignatureCheck
  \/ ProvenanceStart

SpecPublish == PublishInit /\ [][PublishNext]_vars

\* ------------------------------------------------------------------------
\* Properties of publishing (SpecPublish)
\* ------------------------------------------------------------------------
\* C21: the file's declaration carries the pending ID the builder gave it
\* until a publish succeeds; a publish that succeeds returns the address at
\* which the store holds the declaration passed, returns 'o8-' followed by
\* that address as the ID, and the file is left holding the declaration
\* with exactly that ID; a publish that fails leaves the file as it was.
C21_PublishRewritesId ==
  /\ published = <<>> =>
       \E u \in Uuids : declFile.declaration_id = createPendingId(u)
  /\ (returned # <<>> /\ returned.op = "publish") =>
       IF returned.outcome.ok
       THEN LET address == returned.outcome.value.cid
            IN /\ SlotOf(store, address) # 0
               /\ store[SlotOf(store, address)] = returned.arg
               /\ returned.outcome.value.declarationId = O8_PREFIX \o address
               /\ published = returned.outcome.value
               /\ declFile = [returned.arg EXCEPT !.declaration_id = O8_PREFIX \o address]
       ELSE declFile = returned.arg

\* a publish that succeeded at its second attempt, on a builder's record
C21_Witness ==
  /\ returned # <<>>
  /\ returned.op = "publish"
  /\ returned.outcome.ok
  /\ Len(returned.sent) = 2
  /\ isPendingId(returned.arg.declaration_id)
  /\ declFile.declaration_id = O8_PREFIX \o CidA

\* C27: a verification of a published declaration by the address or the
\* ID that publish returned reports no declaration-ID mismatch, whether
\* the declaration published carried a pending ID or the published ID an
\* earlier publish had written into it.
C27_PublishedVerifiesConsistent ==
  ReachedChecks =>
    ~(/\ Has(Checks.schema, "errors")
      /\ \E i \in DOMAIN Checks.schema.errors : Checks.schema.errors[i] = IdMismatch)

\* ------------------------------------------------------------------------
\* Concurrent calls (SpecConcurrent).  A call runs from one await to the
\* next in one step; what it holds between steps is its frame: its
\* arguments and locals.  Objects it creates live in the heap, and the
\* frame holds references into it.  script is what the store answers to
\* the call's successive requests.
\* ------------------------------------------------------------------------
MaxTasks == 2

NewFrame(op, arg, options, script) ==
  [op |-> op, arg |-> arg, options |-> options, script |-> script,
   at |-> "start", timestamp |-> toISOString(0), asked |-> 0, attempt |-> 0,
   target |-> <<>>, ref |-> 0, probes |-> <<>>, probed |-> 0, count |-> 0,
   error |-> "none"]

\* the answer to the call's next request; a store that has stopped
\* answering times the request out
reply(frame) ==
  IF frame.asked < Len(frame.script) THEN frame.script[frame.asked + 1]
  ELSE [kind |-> "abort", why |-> "timeout"]

\* one result object kept for all calls
allocateReused(objects, value) ==
  IF objects = <<>> THEN [heap |-> <<value>>, ref |-> 1]
  ELSE [heap |-> [objects EXCEPT ![1] = value], ref |-> 1]

\* an object literal, or the object a parse returns: a new object
allocate(objects, value) ==
  [heap |-> Append(objects, value), ref |-> Len(objects) + 1]

\* the call returns a new object holding value
returns(frame, objects, value) ==
  LET a == allocate(objects, value)
  IN [frame |-> [frame EXCEPT !.at = "done", !.ref = a.ref], heap |-> a.heap]

\* the call raises
raises(frame, objects, e) ==
  [frame |-> [frame EXCEPT !.at = "done", !.error = e], heap |-> objects]

\* the call goes on at `to` with its result object updated
updates(frame, objects, value, to) ==
  [frame |-> [frame EXCEPT !.at = to],
   heap |-> [objects EXCEPT ![frame.ref] = value]]

\* verifyDeclaration from one await to the next
verifyStep(frame, objects) ==
  CASE frame.at = "start" ->
         LET r == extractCID(frame.arg)
         IN IF r.ok
            THEN [frame |-> [frame EXCEPT !.at = "fetch", !.target = r.value],
                  heap |-> objects]
            ELSE returns(frame, objects,
                         createFailedResult("Invalid declaration ID or CID", frame.timestamp))
    [] frame.at = "fetch" ->
         LET r == fetchAttempt(reply(frame))
             step == retryStep(frame.attempt, r)
             asked == [frame EXCEPT !.asked = @ + 1]
         IN IF ~step.done
            THEN [frame |-> [asked EXCEPT !.attempt = @ + 1], heap |-> objects]
            ELSE IF ~step.outcome.ok
            THEN returns(asked, objects,
                         createFailedResult("Failed to fetch declaration from IPFS",
                                            frame.timestamp))
            ELSE LET checked == schemaStep(r.value, frame.target, frame.timestamp)
                     a == allocate(objects, checked.result)
                 IN [frame |-> [asked EXCEPT !.at = checked.next, !.ref = a.ref],
                     heap |-> a.heap]
    [] frame.at = "fingerprint" ->
         updates(frame, objects,
                 fingerprintStep(objects[frame.ref], frame.options, FileSystem),
                 "signatures")
    [] frame.at = "signatures" ->
         updates(frame, objects, signatureStep(objects[frame.ref], frame.options),
                 "provenance")
    [] frame.at = "provenance" ->
         IF ~Requested(frame.options, "checkProvenance")
         THEN [frame |-> [frame EXCEPT !.at = "done"], heap |-> objects]
         ELSE LET collected == provenanceSources(objects[frame.ref].declaration)
              IN IF Len(collected) = 0
                 THEN updates(frame, objects,
                              provenanceStep(objects[frame.ref],
                                             [valid |-> TRUE, sources_checked |-> 0,
                                              sources_valid |-> 0]),
                              "done")
                 ELSE [frame |-> [frame EXCEPT !.at = "probe", !.probes = collected],
                       heap |-> objects]
    [] frame.at = "probe" ->
         LET r == exists(reply(frame))
             count == IF r.ok /\ r.value THEN frame.count + 1 ELSE frame.count
             probed == [frame EXCEPT !.asked = @ + 1, !.count = count, !.probed = @ + 1]
         IN IF probed.probed < Len(frame.probes) THEN [frame |-> probed, heap |-> objects]
            ELSE updates(probed, objects,
                         provenanceStep(objects[frame.ref],
                                        provenanceVerdict(Len(frame.probes), count)),
                         "done")

\* IPFSClient.publish and IPFSClient.fetch from one await to the next
clientStep(frame, objects) ==
  IF frame.at = "start"
  THEN IF frame.op = "publish" /\ ~validateDeclaration(frame.arg).valid
       THEN raises(frame, objects, "IPFSError")
       ELSE [frame |-> [frame EXCEPT !.at = "attempt"], heap |-> objects]
  ELSE LET r == IF frame.op = "publish"
                THEN publishAttempt(reply(frame), DefaultGateway)
                ELSE fetchAttempt(reply(frame))
           step == retryStep(frame.attempt, r)
           asked == [frame EXCEPT !.asked = @ + 1]
       IN IF ~step.done
          THEN [frame |-> [asked EXCEPT !.attempt = @ + 1], heap |-> objects]
          ELSE IF step.outcome.ok THEN returns(asked, objects, step.outcome.value)
          ELSE raises(asked, objects, step.outcome.error)

taskStep(frame, objects) ==
  IF frame.op = "verify" THEN verifyStep(frame, objects) ELSE clientStep(frame, objects)

\* the call run from its start to its end with nothing else running
RECURSIVE RunAlone(_, _)
RunAlone(frame, objects) ==
  IF frame.at = "done" THEN [frame |-> frame, heap |-> objects]
  ELSE LET s == taskStep(frame, objects) IN RunAlone(s.frame, s.heap)

\* a record with three provenance references
ReferencingDeclaration ==
  [BaseDeclaration EXCEPT
     !.provenance =
       [ipfs_cid |-> CidA,
        source_material |-> <<[cid |-> CidB, description |-> NameA,
                               relationship |-> "remix"]>>,
        samples |-> <<>>,
        stems |-> <<[cid |-> CidC, name |-> NameA, type |-> "drums"]>>]]

\* a signed record
SignedDeclaration ==
  [BaseDeclaration EXCEPT
     !.identity.primary_artist = [name |-> NameA, wallet |-> WalletA, signature |-> Sig]]

Payload(p) == [kind |-> "http", ok |-> TRUE, parses |-> TRUE, json |-> p]

\* the calls made, each with what the store answers it
TaskCalls ==
  {NewFrame("verify", CidA, [checkProvenance |-> TRUE],
            <<Payload(ReferencingDeclaration), [kind |-> "http", ok |-> TRUE],
              [kind |-> "http", ok |-> FALSE], [kind |-> "http", ok |-> TRUE]>>),
   NewFrame("verify", O8_PREFIX \o CidB, [audioFile |-> FileB, checkSignatures |-> TRUE],
            <<[kind |-> "abort", why |-> "timeout"], Payload(SignedDeclaration)>>),
   NewFrame("publish", BaseDeclaration, <<>>,
            <<[kind |-> "http", ok |-> FALSE], Payload([Hash |-> CidA])>>),
   NewFrame("fetch", CidB, <<>>,
            <<[kind |-> "http", ok |-> TRUE, parses |-> FALSE], Payload(ExtraDeclaration)>>)}

\* the event loop runs one call to its next await
Step ==
  \E t \in DOMAIN tasks :
    /\ tasks[t].at # "done"
    /\ LET s == taskStep(tasks[t], heap)
       IN /\ tasks' = [tasks EXCEPT ![t] = s.frame]
          /\ heap' = s.heap
    /\ UNCHANGED <<now, builderVars, verifyVars, pureVars, clientVars, cliVars, chainVars>>

ConcurrentInit ==
  /\ now = 0
  /\ draft = NewDraft(Uuid1, now)
  /\ built = <<>>
  /\ lastCall = [op |-> "constructor", threw |-> FALSE]
  /\ calls = 0
  /\ VerifyIdle
  /\ PureIdle
  /\ ClientIdle
  /\ CliIdle
  /\ ChainIdle
  /\ tasks \in [1..MaxTasks -> TaskCalls]
  /\ heap = <<>>

ConcurrentNext == Step

SpecConcurrent == ConcurrentInit /\ [][ConcurrentNext]_vars

\* the call of a frame, before its first step
Started(frame) == NewFrame(frame.op, frame.arg, frame.options, frame.script)

\* C22: in every interleaving of the calls, a call that has ended has
\* raised or returned as it does when run alone against the same answers
\* of the store: the same error, or an object with the same content; and
\* no two calls have returned the same object.
C22_CallsAreIndependent ==
  /\ \A t \in DOMAIN tasks :
       tasks[t].at = "done" =>
         LET alone == RunAlone(Started(tasks[t]), <<>>)
         IN /\ tasks[t].error = alone.frame.error
            /\ (tasks[t].ref = 0) = (alone.frame.ref = 0)
            /\ tasks[t].ref # 0 => heap[tasks[t].ref] = alone.heap[alone.frame.ref]
  /\ \A t, u \in DOMAIN tasks :
       (t # u /\ tasks[t].ref # 0 /\ tasks[u].ref # 0) => tasks[t].ref # tasks[u].ref

\* two verifications interleaved: the second created its result object
\* first and is still at its signature check when the first, which made
\* three probes meanwhile, has returned
C22_Witness ==
  /\ tasks[1].op = "verify"
  /\ tasks[1].at = "done"
  /\ tasks[1].probed = 3
  /\ tasks[1].ref = 2
  /\ tasks[2].op = "verify"
  /\ tasks[2].at = "signatures"
  /\ tasks[2].ref = 1

\* ------------------------------------------------------------------------
\* validateDeclaration applied to drawn records (SpecSchema)
\* ------------------------------------------------------------------------
NameValues == {NameA, Padded, Blank, <<>>}

\* BaseDeclaration with one of its name or description fields set to v
Renamed(v) ==
  {[BaseDeclaration EXCEPT !.identity.primary_artist.name = v],
   [BaseDeclaration EXCEPT !.identity.collaborators = <<[name |-> v, role |-> NameA]>>],
   [BaseDeclaration EXCEPT !.identity.collaborators = <<[name |-> NameB, role |-> v]>>],
   [BaseDeclaration EXCEPT
      !.identity.contributors = <<[name |-> v, role |-> NameA, contribution |-> NameA]>>],
   [BaseDeclaration EXCEPT
      !.identity.contributors = <<[name |-> NameB, role |-> v, contribution |-> NameA]>>],
   [BaseDeclaration EXCEPT
      !.identity.contributors = <<[name |-> NameB, role |-> NameA, contribution |-> v]>>],
   [BaseDeclaration EXCEPT
      !.creative_stack.ai_models = <<[name |-> v, provider |-> NameB, usage |-> NameA]>>],
   [BaseDeclaration EXCEPT
      !.creative_stack.ai_models = <<[name |-> NameA, provider |-> v, usage |-> NameA]>>],
   [BaseDeclaration EXCEPT
      !.creative_stack.ai_models = <<[name |-> NameA, provider |-> NameB, usage |-> v]>>],
   [BaseDeclaration EXCEPT !.production_intelligence.methodology = v],
   [BaseDeclaration EXCEPT
      !.provenance.source_material =
        <<[cid |-> CidA, description |-> v, relationship |-> "remix"]>>],
   [BaseDeclaration EXCEPT !.provenance.samples = <<[cid |-> CidB, name |-> v]>>],
   [BaseDeclaration EXCEPT
      !.provenance.stems = <<[cid |-> CidC, name |-> v, type |-> "drums"]>>],
   [BaseDeclaration EXCEPT !.audio_fingerprint.format = v]}

SchemaInputs == UNION {Renamed(v) : v \in NameValues}

ValidateDeclaration ==
  /\ calllog = <<>>
  /\ calllog' = <<[fn |-> "validateDeclaration", arg |-> args,
                   ret |-> validateDeclaration(args)]>>
  /\ UNCHANGED <<now, builderVars, verifyVars, clientVars, args, cliVars, chainVars, taskVars>>

SchemaInit ==
  /\ now = 0
  /\ draft = NewDraft(Uuid1, now)
  /\ built = <<>>
  /\ lastCall = [op |-> "constructor", threw |-> FALSE]
  /\ calls = 0
  /\ VerifyIdle
  /\ ClientIdle
  /\ CliIdle
  /\ ChainIdle
  /\ TasksIdle
  /\ args \in SchemaInputs
  /\ calllog = <<>>

SchemaNext == ValidateDeclaration

SpecSchema == SchemaInit /\ [][SchemaNext]_vars

\* the values of property k of the entries of a list
Each(list, k) == {list[i][k] : i \in DOMAIN list}

\* the required name and description fields of a record
NamedFields(d) ==
  {d.identity.primary_artist.name,
   d.production_intelligence.methodology,
   d.audio_fingerprint.format}
    \cup Each(d.identity.collaborators, "name")
    \cup Each(d.identity.collaborators, "role")
    \cup Each(d.identity.contributors, "name")
    \cup Each(d.identity.contributors, "role")
    \cup Each(d.identity.contributors, "contribution")
    \cup Each(d.creative_stack.ai_models, "name")
    \cup Each(d.creative_stack.ai_models, "provider")
    \cup Each(d.creative_stack.ai_models, "usage")
    \cup Each(d.provenance.source_material, "description")
    \cup Each(d.provenance.samples, "name")
    \cup Each(d.provenance.stems, "name")

\* C23: a record that validateDeclaration accepts has no required name or
\* description field that is empty once its whitespace is trimmed.
C23_BlankNamesRejected ==
  \A i \in DOMAIN calllog :
    calllog[i].ret.valid =>
      \A v \in NamedFields(calllog[i].ret.data) : Trim(v) # <<>>

\* ------------------------------------------------------------------------
\* contracts: RevenueRouter and SplitDistributor (SpecRevenue)
\* Amounts are in wei.  chain holds every account's balance and the
\* contracts' storage; a transaction that reverts leaves it as it was.
\* The amounts stay far below 2^256, where checked arithmetic would revert.
\* ------------------------------------------------------------------------
MaxSends == 2

ZeroAddress == "0x0"

\* the SplitDistributor contracts deployed, as their constructors left them
Deployed ==
  [c \in {"split", "derivative", "original"} |->
     CASE c = "split" ->
            [splits |-> <<[recipient |-> "artist", percentage |-> 7000],
                          [recipient |-> "producer", percentage |-> 3000]>>,
             parentContract |-> ZeroAddress, parentPercentage |-> 0]
       [] c = "derivative" ->
            [splits |-> <<[recipient |-> "remixer", percentage |-> 5400],
                          [recipient |-> "engineer", percentage |-> 3600]>>,
             parentContract |-> "original", parentPercentage |-> 1000]
       [] c = "original" ->
            [splits |-> <<[recipient |-> "originalArtist", percentage |-> 10000]>>,
             parentContract |-> ZeroAddress, parentPercentage |-> 0]]

Payees == {"treasury", "artist", "producer", "remixer", "engineer", "originalArtist"}

Accounts == Payees \cup DOMAIN Deployed \cup {"router"}

DeclarationIds == {"d1", "d2"}

Reverted(st) == [ok |-> FALSE, st |-> st]

Succeeded(st) == [ok |-> TRUE, st |-> st]

RECURSIVE transfer(_, _, _, _)
RECURSIVE distribute(_, _)
RECURSIVE payRecipients(_, _, _, _)

\* distribute, line 82, with the share taken of the whole 10000
splitAmountOfWhole(balance, percentage, parentPercentage) ==
  (balance * percentage) \div 10000

\* distribute, line 82
splitAmount(balance, percentage, parentPercentage) ==
  (balance * percentage) \div (10000 - parentPercentage)

\* to.call{value: value}(""): the value moves and, when `to` is a
\* SplitDistributor, its receive() runs
transfer(st, from, to, value) ==
  LET moved == [st EXCEPT !.balance[from] = @ - value, !.balance[to] = @ + value]
  IN IF to \in DOMAIN Deployed /\ value > 0 THEN distribute(moved, to)
     ELSE Succeeded(moved)

\* SplitDistributor.distribute, lines 79-90
payRecipients(st, c, i, balance) ==
  IF i > Len(Deployed[c].splits) THEN Succeeded(st)
  ELSE LET split == Deployed[c].splits[i]
           amount == splitAmount(balance, split.percentage, Deployed[c].parentPercentage)
           paid == transfer(st, c, split.recipient, amount)
       IN IF ~paid.ok THEN Reverted(st)
          ELSE payRecipients([paid.st EXCEPT !.totalDistributed[c] = @ + amount],
                             c, i + 1, balance)

\* SplitDistributor.distribute of contract c
distribute(st, c) ==
  LET balance == st.balance[c]
      parent == Deployed[c].parentContract
      parentPercentage == Deployed[c].parentPercentage
  IN IF balance = 0 THEN Reverted(st)
     ELSE IF parent # ZeroAddress /\ parentPercentage > 0
     THEN LET parentAmount == (balance * parentPercentage) \div 10000
              royalty == transfer(st, c, parent, parentAmount)
          IN IF ~royalty.ok THEN Reverted(st)
             ELSE payRecipients(royalty.st, c, 1, balance - parentAmount)
     ELSE payRecipients(st, c, 1, balance)

\* sendRevenue counting what it forwarded as received
sendRevenueNet(st, declarationId, value) ==
  IF value = 0 THEN Reverted(st)
  ELSE IF st.splitContracts[declarationId] = ZeroAddress THEN Reverted(st)
  ELSE LET platformFee == (value * st.platformFeeBps) \div 10000
           artistRevenue == value - platformFee
           funded == [st EXCEPT !.balance["router"] = @ + value]
           fee == IF platformFee > 0
                  THEN transfer(funded, "router", "treasury", platformFee)
                  ELSE Succeeded(funded)
           forwarded == transfer(fee.st, "router", st.splitContracts[declarationId],
                                 artistRevenue)
       IN IF ~fee.ok \/ ~forwarded.ok THEN Reverted(st)
          ELSE Succeeded([forwarded.st EXCEPT
                            !.declarationRevenue[declarationId] =
                              [totalReceived |-> @.totalReceived + artistRevenue,
                               totalDistributed |-> @.totalDistributed + artistRevenue,
                               transactionCount |-> @.transactionCount + 1]])

\* RevenueRouter.sendRevenue with msg.value = value
sendRevenue(st, declarationId, value) ==
  IF value = 0 THEN Reverted(st)
  ELSE IF st.splitContracts[declarationId] = ZeroAddress THEN Reverted(st)
  ELSE LET platformFee == (value * st.platformFeeBps) \div 10000
           artistRevenue == value - platformFee
           funded == [st EXCEPT !.balance["router"] = @ + value]
           fee == IF platformFee > 0
                  THEN transfer(funded, "router", "treasury", platformFee)
                  ELSE Succeeded(funded)
           forwarded == transfer(fee.st, "router", st.splitContracts[declarationId],
                                 artistRevenue)
       IN IF ~fee.ok \/ ~forwarded.ok THEN Reverted(st)
          ELSE Succeeded([forwarded.st EXCEPT
                            !.declarationRevenue[declarationId] =
                              [totalReceived |-> @.totalReceived + value,
                               totalDistributed |-> @.totalDistributed + artistRevenue,
                               transactionCount |-> @.transactionCount + 1]])

\* RevenueRouter.setPlatformFee, called by the owner
setPlatformFee(st, feeBps) ==
  IF feeBps > 500 THEN Reverted(st) ELSE Succeeded([st EXCEPT !.platformFeeBps = feeBps])

\* RevenueRouter.registerSplitContract, called by the owner
registerSplitContract(st, declarationId, splitContract) ==
  Succeeded([st EXCEPT !.splitContracts[declarationId] = splitContract])

Amounts == {0, 1, 9, 100}

FeeInputs == {500, 600}

SendRevenue ==
  /\ Len(sends) < MaxSends
  /\ \E declarationId \in DeclarationIds, value \in Amounts :
       LET tx == sendRevenue(chain, declarationId, value)
       IN /\ chain' = tx.st
          /\ sends' = Append(sends, [declarationId |-> declarationId, value |-> value,
                                     ok |-> tx.ok, before |-> chain, after |-> tx.st])
  /\ UNCHANGED <<now, builderVars, verifyVars, pureVars, clientVars, cliVars, taskVars>>

SetPlatformFee ==
  /\ \E feeBps \in FeeInputs : chain' = setPlatformFee(chain, feeBps).st
  /\ UNCHANGED <<now, builderVars, verifyVars, pureVars, clientVars, cliVars, taskVars, sends>>

RegisterSplitContract ==
  /\ \E c \in {"split", "derivative"} :
       chain' = registerSplitContract(chain, "d1", c).st
  /\ UNCHANGED <<now, builderVars, verifyVars, pureVars, clientVars, cliVars, taskVars, sends>>

\* the router as its constructor leaves it, next to the deployed splits
RevenueInit ==
  /\ now = 0
  /\ draft = NewDraft(Uuid1, now)
  /\ built = <<>>
  /\ lastCall = [op |-> "constructor", threw |-> FALSE]
  /\ calls = 0
  /\ VerifyIdle
  /\ PureIdle
  /\ ClientIdle
  /\ CliIdle
  /\ TasksIdle
  /\ chain = [balance |-> [a \in Accounts |-> 0],
              totalDistributed |-> [c \in DOMAIN Deployed |-> 0],
              splitContracts |-> [d \in DeclarationIds |-> ZeroAddress],
              declarationRevenue |->
                [d \in DeclarationIds |->
                   [totalReceived |-> 0, totalDistributed |-> 0, transactionCount |-> 0]],
              platformFeeBps |-> 100]
  /\ sends = <<>>

RevenueNext ==
  \/ SendRevenue
  \/ SetPlatformFee
  \/ RegisterSplitContract

SpecRevenue == RevenueInit /\ [][RevenueNext]_vars

\* ------------------------------------------------------------------------
\* Properties of the contracts (SpecRevenue)
\* ------------------------------------------------------------------------
\* what the accounts of S hold together
RECURSIVE Total(_, _)
Total(balance, S) ==
  IF S = {} THEN 0
  ELSE LET a == CHOOSE x \in S : TRUE IN balance[a] + Total(balance, S \ {a})

\* what a sendRevenue transaction e added to account a
Gained(e, a) == e.after.balance[a] - e.before.balance[a]

\* the recipients of split contract c
RecipientsOf(c) == {Deployed[c].splits[j].recipient : j \in DOMAIN Deployed[c].splits}

\* transaction e paid the fee to the treasury and, out of `base` wei at
\* the split contract, first the parent's royalty and then every
\* recipient its share
PaidOutOf(e, base) ==
  LET c == e.before.splitContracts[e.declarationId]
      parent == Deployed[c].parentContract
      parentPercentage == Deployed[c].parentPercentage
      parentAmount == IF parent # ZeroAddress /\ parentPercentage > 0
                      THEN (base * parentPercentage) \div 10000
                      ELSE 0
  IN /\ Gained(e, "treasury") = (e.value * e.before.platformFeeBps) \div 10000
     /\ \A j \in DOMAIN Deployed[c].splits :
          Gained(e, Deployed[c].splits[j].recipient) =
            ((base - parentAmount) * Deployed[c].splits[j].percentage)
              \div (10000 - parentPercentage)
     /\ parent # ZeroAddress =>
          Gained(e, parent) + Total(e.after.balance, RecipientsOf(parent))
            - Total(e.before.balance, RecipientsOf(parent)) = parentAmount

\* what transaction e forwarded to the split contract
Forwarded(e) == e.value - (e.value * e.before.platformFeeBps) \div 10000

\* what the split contracts held before transaction e
Leftover(e) == Total(e.before.balance, DOMAIN Deployed)

\* C24 as stated: a successful sendRevenue of v wei pays
\* floor(v * platformFeeBps / 10000) to the treasury, and the split contract
\* pays the parent's royalty and every recipient's share out of the
\* v - fee it received; the payees together get at most v.
C24_SharesOfAmountReceived ==
  \A i \in DOMAIN sends :
    sends[i].ok =>
      /\ PaidOutOf(sends[i], Forwarded(sends[i]))
      /\ Total(sends[i].after.balance, Payees) - Total(sends[i].before.balance, Payees)
           <= sends[i].value

\* C24, amended: a successful sendRevenue of v wei pays
\* floor(v * platformFeeBps / 10000) to the treasury, and the split contract
\* pays the parent's royalty and every recipient's share out of its whole
\* balance, the v - fee it received and what earlier distributions left in
\* it; the payees together get at most v and what the split contracts held.
C24_SharesOfBalance ==
  \A i \in DOMAIN sends :
    sends[i].ok =>
      LET e == sends[i]
          c == e.before.splitContracts[e.declarationId]
      IN /\ PaidOutOf(e, e.before.balance[c] + Forwarded(e))
         /\ Total(e.after.balance, Payees) - Total(e.before.balance, Payees)
              <= e.value + Leftover(e)
         /\ Total(e.after.balance, Accounts) = Total(e.before.balance, Accounts) + e.value

\* a payment of 100 wei at a fee of 1% to the derivative's contract, which
\* held 1 wei: 1 to the treasury, 10 to the original, 54 and 36 to the two
\* recipients, 101 in all
C24_Witness ==
  /\ Len(sends) = 2
  /\ sends[2].ok
  /\ sends[2].value = 100
  /\ sends[2].before.platformFeeBps = 100
  /\ sends[2].before.splitContracts["d1"] = "derivative"
  /\ sends[2].declarationId = "d1"
  /\ sends[2].before.balance["derivative"] = 1
  /\ Gained(sends[2], "originalArtist") = 10
  /\ Gained(sends[2], "remixer") = 54

\* the successful transactions for declaration d: their amounts' sum
RECURSIVE Received(_, _)
Received(log, d) ==
  IF log = <<>> THEN 0
  ELSE (IF Head(log).ok /\ Head(log).declarationId = d THEN Head(log).value ELSE 0)
         + Received(Tail(log), d)

\* ... and their number
Successful(log, d) ==
  Len(SelectSeq(log, LAMBDA e : e.ok /\ e.declarationId = d))

\* C25: after any sequence of sendRevenue calls, totalReceived of a
\* declaration is the sum of the amounts of its successful calls and
\* transactionCount their number; a call reverts exactly when its amount is
\* zero or no split contract is registered for the ID, and then no stats
\* and no balance change.
C25_StatsCountSuccessfulCalls ==
  /\ \A d \in DeclarationIds :
       /\ chain.declarationRevenue[d].totalReceived = Received(sends, d)
       /\ chain.declarationRevenue[d].transactionCount = Successful(sends, d)
  /\ \A i \in DOMAIN sends :
       /\ ~sends[i].ok <=> \/ sends[i].value = 0
                           \/ sends[i].before.splitContracts[sends[i].declarationId]
                                = ZeroAddress
       /\ ~sends[i].ok => sends[i].after = sends[i].before

\* two payments for one declaration, the second with a fee, then counted
C25_Witness ==
  /\ Len(sends) = 2
  /\ sends[1].ok
  /\ sends[2].ok
  /\ sends[1].declarationId = "d1"
  /\ sends[2].declarationId = "d1"
  /\ sends[1].value = 9
  /\ sends[2].value = 100
  /\ chain.declarationRevenue["d1"].totalReceived = 109
  /\ chain.declarationRevenue["d1"].transactionCount = 2
  /\ chain.balance["treasury"] = 1

====
